---- MODULE Spec2Model ----
(***************************************************************************)
(* The client-side synchronisation layer of app/static/app.js: the         *)
(* IndexedDB cache (cacheGet / cacheSet), the stale-while-revalidate       *)
(* loads of the seven views, the mutating form handlers, the               *)
(* double-confirmed admin actions and the role gate.                       *)
(*                                                                         *)
(* Execution model.  The script runs on one event loop.  An async function *)
(* runs without interruption from one await to the next, so every action   *)
(* below is one such segment.  A cacheGet / cacheSet takes effect in the   *)
(* segment that calls it (IndexedDB serves requests on one store in call   *)
(* order); the code after the await is the next segment.  A fetchJson call *)
(* puts a request in a slot of the calling process ("sent"); the server    *)
(* answers it in a step of its own (ServerRespond), and the code after the *)
(* await runs in a later segment, so answers may be delivered in any order.*)
(*                                                                         *)
(* Payloads.  A payload is a sequence of parts [r, v]: the server resource *)
(* a part was read from and the version read; <<>> is null.  A cache entry *)
(* written by an earlier session holds version 0; the server starts the    *)
(* session at 1.                                                           *)
(***************************************************************************)
EXTENDS Integers, Sequences, FiniteSets, TLC

VARIABLES
  page,         \* the page the browser shows: decides which roots exist
  session,      \* server side: the role of the logged-in account
  CURRENT_USER, \* the script's CURRENT_USER, by its role (NoUser: null)
  ui,           \* what the role gates made of the page's gated elements
  server,       \* server resource -> version
  cache,        \* object store "cache": key -> payload (NULL: no entry)
  storeOk,      \* whether indexedDB.open succeeds in this session
  txFate,       \* how a transaction on the open store ends (see TxFates)
  view,         \* root element -> what it shows
  status,       \* form status element -> text
  closeBtn,     \* the dashboard's current close button
  alerted,      \* last text passed to window.alert
  proc,         \* process -> its position, cached reads, request slots
  submits,      \* user-triggered handler runs so far
  req,          \* one fetchJson call followed from its start to its settling
  calc          \* one call of a synchronous helper: its input and its result

vars == <<page, session, CURRENT_USER, ui, server, cache, storeOk, txFate, view, status,
          closeBtn, alerted, proc, submits, req, calc>>

\* the state of the page's views and of its async functions
app == <<page, session, CURRENT_USER, ui, server, view, status, closeBtn, alerted, proc, submits>>

\* ---------------------------------------------------------------- bounds
MaxSubmits == 2
\* distinct payloads a direct cacheSet call may store under a key
MaxData == 2

\* ---------------------------------------------------------------- values
NULL == <<>>

Pages == {"dashboard", "ingresos", "gastos", "banco", "deudas", "reportes", "admin"}

\* currentYearMonth(): the month of the session
Now == [year |-> 2026, month |-> 11]

\* the periods the user can ask the monthly report for
Periods == {Now, [year |-> 2026, month |-> 3]}

\* String(m).padStart(2, "0")
padStart2(m) == IF m < 10 THEN "0" \o ToString(m) ELSE ToString(m)

\* cache keys
DashKey(y, m) == "dashboard:" \o ToString(y) \o "-" \o ToString(m)
ReportKey(y, m) == "report:" \o ToString(y) \o "-" \o padStart2(m)

Keys == {"bootstrap", DashKey(Now.year, Now.month), "companies", "workEntries", "expenses",
         "bankSummary", "debts"} \cup {ReportKey(q.year, q.month) : q \in Periods}

\* request URLs
ReportUrl(y, m) == "/api/reports/monthly?year=" \o ToString(y) \o "&month=" \o ToString(m)

\* the resources the server serves by GET
Resources == {"/api/bootstrap", "/api/companies", "/api/work-entries", "/api/expenses",
              "/api/bank/summary", "/api/debts", "/api/debts/1/payments",
              "/api/me", "/api/admin/users", "/api/admin/audit"}
             \cup {ReportUrl(q.year, q.month) : q \in Periods}

\* the admin actions and the POST each sends; the row acted on is user 1
AdminKinds == {"set-plan", "suspend", "set-role", "soft-delete", "recover", "claim-owner"}
AdminUrl(kind) ==
  IF kind = "claim-owner" THEN "/api/admin/bootstrap/claim-owner"
  ELSE "/api/admin/users/1/" \o kind

Roots == {"dashboard", "companies", "entries", "expenses", "balance",
          "movements", "debts", "content", "admin"}

StatusEls == {"company", "entry", "expense", "monthClose", "debt", "report", "paymentsBox"}

Procs == {"load", "act", "me"}

Blank == [k |-> "blank", d |-> NULL, m |-> ""]
Cargando == [k |-> "loading", d |-> NULL, m |-> ""]
alertNode(message) == [k |-> "alert", d |-> NULL, m |-> message]
Data(d) == [k |-> "data", d |-> d, m |-> ""]

NoReq == [s |-> "none", method |-> "", url |-> "", d |-> NULL, user |-> ""]
Sent(method, url) == [s |-> "sent", method |-> method, url |-> url, d |-> NULL, user |-> ""]

Idle == [pc |-> "idle", kind |-> "", per |-> Now, cached |-> NULL, cached2 |-> NULL,
         ra |-> NoReq, rb |-> NoReq, fresh |-> NULL, own |-> FALSE, ev |-> <<>>]

\* ----------------------------------------------------------------- cache
\* How a transaction on the open store ends.  "complete": the request
\* succeeds and the transaction commits.  "error": the request fails, its
\* error event reaches req.onerror / tx.onerror.  "abort": the put succeeds
\* and the commit fails (quota, disk): the transaction gets its abort event
\* only, for which cacheSet registers no handler.
TxFates == {"complete", "error", "abort"}

\* the store opens and store.get(key) succeeds (a read-only transaction has
\* nothing to commit)
Readable == storeOk /\ txFate # "error"
\* the store opens and the write transaction commits
Writable == storeOk /\ txFate = "complete"

\* what a caller would see of a rejected promise
Rejected == <<[r |-> "rejected", v |-> -1]>>

\* cacheGet without its catch
cacheGetNoCatch(key) == IF Readable THEN cache[key] ELSE Rejected

\* cacheSet merging the new data into the entry
cacheSetMerge(c, key, data) == IF Writable THEN [c EXCEPT ![key] = @ \o data] ELSE c

\* cacheSet emptying the store before its put
cacheSetEvict(c, key, data) ==
  IF Writable THEN [k \in Keys |-> IF k = key THEN data ELSE NULL] ELSE c

\* cacheGet: the stored data, or null when there is no entry or the store fails
cacheGet(key) == IF Readable THEN cache[key] ELSE NULL

\* cacheSet: the store after put({key, data}); unchanged when the store fails
cacheSet(c, key, data) == IF Writable THEN [c EXCEPT ![key] = data] ELSE c

\* `await cacheSet(...)`: the position of the caller after the call.  The
\* promise settles through tx.oncomplete, through tx.onerror or through the
\* catch around openCacheDb; when the transaction only aborts it never
\* settles and the caller stays at the await.
AfterCacheSet(next) == IF storeOk /\ txFate = "abort" THEN "suspended" ELSE next

\* cached?.field: the entry exists and carries the field the view renders
HasField(cached) == cached # NULL /\ \A i \in 1..Len(cached) : cached[i].v >= 0

\* ---------------------------------------------------------------- server
\* the resources a successful POST changes on the server
Affects(url) ==
  CASE url = "/api/months/close" ->
         {"/api/bootstrap", ReportUrl(Now.year, Now.month), "/api/bank/summary"}
    [] url = "/api/companies" -> {"/api/companies", "/api/bootstrap"}
    [] url = "/api/work-entries" ->
         {"/api/work-entries", "/api/bootstrap", ReportUrl(Now.year, Now.month)}
    [] url = "/api/expenses" ->
         {"/api/expenses", "/api/bank/summary", "/api/bootstrap", ReportUrl(Now.year, Now.month)}
    [] url = "/api/debts" -> {"/api/debts", "/api/bootstrap"}
    [] url = "/api/debts/1/payments" ->
         {"/api/debts", "/api/debts/1/payments", "/api/bank/summary"}
    [] url \in {AdminUrl(k) : k \in AdminKinds} -> {"/api/admin/users", "/api/admin/audit"}
    [] OTHER -> {}

\* the body of a GET answer
Payload(url, version) == <<[r |-> url, v |-> version]>>

\* fetchJson's outcome: the payload on success, a thrown Error otherwise
ServerRespond(p, slot, okay) ==
  LET r == proc[p][slot] IN
  /\ r.s = "sent"
  /\ IF r.method = "POST"
       THEN IF okay
              THEN /\ server' = [x \in Resources |->
                                   IF x \in Affects(r.url) THEN server[x] + 1 ELSE server[x]]
                   /\ session' = IF r.url = AdminUrl("claim-owner") THEN "ROLE_OWNER" ELSE session
                   /\ proc' = [proc EXCEPT ![p][slot] = [r EXCEPT !.s = "ok"]]
              ELSE /\ proc' = [proc EXCEPT ![p][slot] = [r EXCEPT !.s = "fail"]]
                   /\ UNCHANGED <<server, session>>
       ELSE /\ proc' = [proc EXCEPT ![p][slot] =
                          IF okay THEN [r EXCEPT !.s = "ok", !.d = Payload(r.url, server[r.url]),
                                                       !.user = IF r.url = "/api/me" THEN session ELSE ""]
                                  ELSE [r EXCEPT !.s = "fail"]]
            /\ UNCHANGED <<server, session>>
  /\ UNCHANGED <<txFate, req, calc, page, CURRENT_USER, ui, cache, storeOk, view, status, closeBtn, alerted, submits>>

\* e.message of a rejected fetchJson
Message(r) == "Error: " \o r.method \o " " \o r.url

Log(p, e) == Append(proc[p].ev, e)

Fetch(method, url) == <<"fetch", method \o " " \o url>>

\* ------------------------------------------------------------ rendering
\* the status elements a root's render creates anew
Inner(root) ==
  CASE root = "companies" -> {"company"}
    [] root = "entries" -> {"entry"}
    [] root = "debts" -> {"paymentsBox"}
    [] OTHER -> {}

\* the handlers whose form lives inside a root
KindsIn(root) ==
  CASE root = "dashboard" -> {"close"}
    [] root = "companies" -> {"company"}
    [] root = "entries" -> {"entry"}
    [] root = "debts" -> {"payment", "toggle"}
    [] OTHER -> {}

\* render(root, children) of every root in roots
render(v, roots, content) == [r \in Roots |-> IF r \in roots THEN content ELSE v[r]]
renderStatus(st, roots) ==
  [e \in StatusEls |-> IF \E r \in roots : e \in Inner(r) THEN "" ELSE st[e]]
\* a running handler whose form was replaced keeps only detached elements
Detach(pr, roots) ==
  [pr EXCEPT !["act"].own = IF \E r \in roots : pr["act"].kind \in KindsIn(r) THEN FALSE ELSE @]

\* ------------------------------------------------------------- dashboard
\* report.isClosed: the month was closed in this session
IsClosed(data) == Len(data) = 2 /\ data[2].v > 1

\* renderDashboard(root, data): replaces the root, makes a new close button
renderDashboard(v, data) == [v EXCEPT !["dashboard"] = Data(data)]
NewCloseBtn(data) == IF IsClosed(data) THEN "disabled" ELSE "enabled"

\* initDashboard after `await cacheGet(cacheKey)`: stale render or placeholder,
\* then both fetches are issued
DashStale ==
  /\ page = "dashboard" /\ proc["load"].pc = "stale"
  /\ LET c == proc["load"].cached IN
     /\ view' = IF HasField(c) THEN renderDashboard(view, c)
                               ELSE [view EXCEPT !["dashboard"] = Cargando]
     /\ closeBtn' = IF HasField(c) THEN NewCloseBtn(c) ELSE "none"
     /\ proc' = [proc EXCEPT !["load"] =
                   [@ EXCEPT !.pc = "join", !.ra = Sent("GET", "/api/bootstrap"), !.rb = Sent("GET", ReportUrl(Now.year, Now.month)),
                             !.ev = proc["load"].ev
                                    \o <<IF HasField(c) THEN <<"stale", "dashboard">>
                                                        ELSE <<"placeholder", "dashboard">>,
                                         Fetch("GET", "/api/bootstrap"), Fetch("GET", ReportUrl(Now.year, Now.month))>>],
                 !["act"].own = FALSE]
  /\ UNCHANGED <<txFate, req, calc, page, session, CURRENT_USER, ui, server, cache, storeOk, status, alerted, submits>>

\* DashJoined with the join settling as soon as bootstrap arrived and the
\* report settled either way (Promise.allSettled)
DashJoinedPartial ==
  /\ page = "dashboard" /\ proc["load"].pc = "join"
  /\ proc["load"].ra.s = "ok" /\ proc["load"].rb.s \in {"ok", "fail"}
  /\ LET b == proc["load"].ra.d
         fresh == proc["load"].ra.d \o proc["load"].rb.d IN
     /\ cache' = cacheSet(cache, "bootstrap", b)
     /\ proc' = [proc EXCEPT !["load"] =
                   [@ EXCEPT !.pc = AfterCacheSet("set1"), !.fresh = fresh,
                             !.ev = Log("load", <<"cacheSet", "bootstrap">>)]]
  /\ UNCHANGED <<txFate, req, calc, page, session, CURRENT_USER, ui, server, storeOk, view, status, closeBtn, alerted, submits>>

\* Promise.all resolved: fresh = {bootstrap, report}; cacheSet("bootstrap", bootstrap)
DashJoined ==
  /\ page = "dashboard" /\ proc["load"].pc = "join"
  /\ proc["load"].ra.s = "ok" /\ proc["load"].rb.s = "ok"
  /\ LET b == proc["load"].ra.d
         fresh == proc["load"].ra.d \o proc["load"].rb.d IN
     /\ cache' = cacheSet(cache, "bootstrap", b)
     /\ proc' = [proc EXCEPT !["load"] =
                   [@ EXCEPT !.pc = AfterCacheSet("set1"), !.fresh = fresh,
                             !.ev = Log("load", <<"cacheSet", "bootstrap">>)]]
  /\ UNCHANGED <<txFate, req, calc, page, session, CURRENT_USER, ui, server, storeOk, view, status, closeBtn, alerted, submits>>

\* after `await cacheSet("bootstrap", ...)`: cacheSet(cacheKey, fresh)
DashSet1 ==
  /\ page = "dashboard" /\ proc["load"].pc = "set1"
  /\ cache' = cacheSet(cache, DashKey(Now.year, Now.month), proc["load"].fresh)
  /\ proc' = [proc EXCEPT !["load"] =
                [@ EXCEPT !.pc = AfterCacheSet("set2"), !.ev = Log("load", <<"cacheSet", DashKey(Now.year, Now.month)>>)]]
  /\ UNCHANGED <<txFate, req, calc, page, session, CURRENT_USER, ui, server, storeOk, view, status, closeBtn, alerted, submits>>

\* after `await cacheSet(cacheKey, fresh)`: renderDashboard(root, fresh)
DashFresh ==
  /\ page = "dashboard" /\ proc["load"].pc = "set2"
  /\ view' = renderDashboard(view, proc["load"].fresh)
  /\ closeBtn' = NewCloseBtn(proc["load"].fresh)
  /\ proc' = [proc EXCEPT !["load"] =
                [@ EXCEPT !.pc = "done", !.ev = Log("load", <<"fresh", "dashboard">>)],
              !["act"].own = FALSE]
  /\ UNCHANGED <<txFate, req, calc, page, session, CURRENT_USER, ui, server, cache, storeOk, status, alerted, submits>>

\* Promise.all rejected: catch (e) { if (!cached) render(root, [alertNode(e.message)]) }
DashFailed ==
  /\ page = "dashboard" /\ proc["load"].pc = "join"
  /\ \E slot \in {"ra", "rb"} :
       /\ proc["load"][slot].s = "fail"
       /\ IF proc["load"].cached = NULL
            THEN /\ view' = [view EXCEPT !["dashboard"] = alertNode(Message(proc["load"][slot]))]
                 /\ closeBtn' = "none"
                 /\ proc' = [proc EXCEPT !["load"] =
                               [@ EXCEPT !.pc = "failed", !.ev = Log("load", <<"alert", "dashboard">>)],
                             !["act"].own = FALSE]
            ELSE /\ proc' = [proc EXCEPT !["load"].pc = "failed"]
                 /\ UNCHANGED <<view, closeBtn>>
  /\ UNCHANGED <<txFate, req, calc, page, session, CURRENT_USER, ui, server, cache, storeOk, status, alerted, submits>>

\* ------------------------------------------------------- double confirm
\* doubleConfirm without its second dialog
singleConfirm(answers) == [asked |-> <<answers[1]>>, ok |-> answers[1]]

\* doubleConfirm(message) on the user's answers: the confirm() dialogs shown
\* (asked) and the value returned
doubleConfirm(answers) ==
  IF ~answers[1] THEN [asked |-> <<answers[1]>>, ok |-> FALSE]
  ELSE [asked |-> <<answers[1], answers[2]>>, ok |-> answers[2]]

Answers == {<<FALSE, FALSE>>, <<TRUE, FALSE>>, <<TRUE, TRUE>>}

ConfirmEvents(asked) == [i \in 1..Len(asked) |-> <<"confirm", IF asked[i] THEN "yes" ELSE "no">>]

\* no handler is running in the slot
Settled(p) == proc[p].pc \in {"idle", "done", "failed", "cancelled"}

\* ------------------------------------------------- dashboard: close month
\* the close button's click handler up to its first await: disable the
\* button, doubleConfirm, POST /api/months/close
CloseClick(answers) ==
  /\ page = "dashboard" /\ closeBtn = "enabled"
  /\ Settled("act") /\ submits < MaxSubmits
  /\ submits' = submits + 1
  /\ closeBtn' = "disabled"
  /\ LET dc == doubleConfirm(answers) IN
     proc' = [proc EXCEPT !["act"] =
                IF dc.ok
                  THEN [Idle EXCEPT !.pc = "post", !.kind = "close", !.own = TRUE,
                                    !.ra = Sent("POST", "/api/months/close"),
                                    !.ev = ConfirmEvents(dc.asked) \o <<Fetch("POST", "/api/months/close")>>]
                  ELSE [Idle EXCEPT !.pc = "cancelled", !.kind = "close", !.own = TRUE,
                                    !.ev = ConfirmEvents(dc.asked)]]
  /\ UNCHANGED <<txFate, req, calc, page, session, CURRENT_USER, ui, server, cache, storeOk, view, status, alerted>>

\* catch (e) { closeBtn.disabled = false; alert(e.message); } of the click
\* handler: it re-enables the button it was attached to
CloseCatch(r) ==
  /\ closeBtn' = IF proc["act"].own THEN "enabled" ELSE closeBtn
  /\ alerted' = Message(r)
  /\ proc' = [proc EXCEPT !["act"] =
                [@ EXCEPT !.pc = "failed", !.ev = Log("act", <<"alert", "window">>)]]
  /\ UNCHANGED <<txFate, req, calc, page, session, CURRENT_USER, ui, server, cache, storeOk, view, status, submits>>

\* closeCurrentMonthAndRefresh after the POST: both fetches are issued
ClosePosted ==
  /\ page = "dashboard" /\ proc["act"].kind = "close" /\ proc["act"].pc = "post"
  /\ proc["act"].ra.s = "ok"
  /\ proc' = [proc EXCEPT !["act"] =
                [@ EXCEPT !.pc = "join", !.ra = Sent("GET", "/api/bootstrap"), !.rb = Sent("GET", ReportUrl(Now.year, Now.month)),
                          !.ev = proc["act"].ev \o <<Fetch("GET", "/api/bootstrap"),
                                                     Fetch("GET", ReportUrl(Now.year, Now.month))>>]]
  /\ UNCHANGED <<txFate, req, calc, page, session, CURRENT_USER, ui, server, cache, storeOk, view, status, closeBtn, alerted, submits>>

ClosePostFailed ==
  /\ page = "dashboard" /\ proc["act"].kind = "close" /\ proc["act"].pc = "post"
  /\ proc["act"].ra.s = "fail"
  /\ CloseCatch(proc["act"].ra)

\* Promise.all resolved: cacheSet("bootstrap", bootstrap)
CloseJoined ==
  /\ page = "dashboard" /\ proc["act"].kind = "close" /\ proc["act"].pc = "join"
  /\ proc["act"].ra.s = "ok" /\ proc["act"].rb.s = "ok"
  /\ cache' = cacheSet(cache, "bootstrap", proc["act"].ra.d)
  /\ proc' = [proc EXCEPT !["act"] =
                [@ EXCEPT !.pc = AfterCacheSet("set1"), !.fresh = proc["act"].ra.d \o proc["act"].rb.d,
                          !.ev = Log("act", <<"cacheSet", "bootstrap">>)]]
  /\ UNCHANGED <<txFate, req, calc, page, session, CURRENT_USER, ui, server, storeOk, view, status, closeBtn, alerted, submits>>

CloseJoinFailed ==
  /\ page = "dashboard" /\ proc["act"].kind = "close" /\ proc["act"].pc = "join"
  /\ \E slot \in {"ra", "rb"} :
       /\ proc["act"][slot].s = "fail"
       /\ CloseCatch(proc["act"][slot])

\* cacheSet(`dashboard:${year}-${month}`, fresh)
CloseSet1 ==
  /\ page = "dashboard" /\ proc["act"].kind = "close" /\ proc["act"].pc = "set1"
  /\ cache' = cacheSet(cache, DashKey(Now.year, Now.month), proc["act"].fresh)
  /\ proc' = [proc EXCEPT !["act"] =
                [@ EXCEPT !.pc = AfterCacheSet("set2"), !.ev = Log("act", <<"cacheSet", DashKey(Now.year, Now.month)>>)]]
  /\ UNCHANGED <<txFate, req, calc, page, session, CURRENT_USER, ui, server, storeOk, view, status, closeBtn, alerted, submits>>

\* await fetchJson("/api/bank/summary")
CloseSet2 ==
  /\ page = "dashboard" /\ proc["act"].kind = "close" /\ proc["act"].pc = "set2"
  /\ proc' = [proc EXCEPT !["act"] =
                [@ EXCEPT !.pc = "bank", !.ra = Sent("GET", "/api/bank/summary"), !.rb = NoReq,
                          !.ev = Log("act", Fetch("GET", "/api/bank/summary"))]]
  /\ UNCHANGED <<txFate, req, calc, page, session, CURRENT_USER, ui, server, cache, storeOk, view, status, closeBtn, alerted, submits>>

\* cacheSet("bankSummary", ...)
CloseBank ==
  /\ page = "dashboard" /\ proc["act"].kind = "close" /\ proc["act"].pc = "bank"
  /\ proc["act"].ra.s = "ok"
  /\ cache' = cacheSet(cache, "bankSummary", proc["act"].ra.d)
  /\ proc' = [proc EXCEPT !["act"] =
                [@ EXCEPT !.pc = AfterCacheSet("set3"), !.ev = Log("act", <<"cacheSet", "bankSummary">>)]]
  /\ UNCHANGED <<txFate, req, calc, page, session, CURRENT_USER, ui, server, storeOk, view, status, closeBtn, alerted, submits>>

CloseBankFailed ==
  /\ page = "dashboard" /\ proc["act"].kind = "close" /\ proc["act"].pc = "bank"
  /\ proc["act"].ra.s = "fail"
  /\ CloseCatch(proc["act"].ra)

\* renderDashboard(root, fresh)
CloseRender ==
  /\ page = "dashboard" /\ proc["act"].kind = "close" /\ proc["act"].pc = "set3"
  /\ view' = renderDashboard(view, proc["act"].fresh)
  /\ closeBtn' = NewCloseBtn(proc["act"].fresh)
  /\ proc' = [proc EXCEPT !["act"] =
                [@ EXCEPT !.pc = "done", !.own = FALSE, !.ev = Log("act", <<"fresh", "dashboard">>)]]
  /\ UNCHANGED <<txFate, req, calc, page, session, CURRENT_USER, ui, server, cache, storeOk, status, alerted, submits>>


\* ------------------------------------------ one-list views: the load
\* SwrStale with the fetch issued before the stale render
SwrStaleFetchFirst(pg, url, roots, placeholder) ==
  /\ page = pg /\ proc["load"].pc = "stale"
  /\ LET c == proc["load"].cached
         shown == IF HasField(c) THEN roots ELSE placeholder IN
     /\ view' = render(view, shown, IF HasField(c) THEN Data(c) ELSE Cargando)
     /\ status' = renderStatus(status, shown)
     /\ proc' = [Detach(proc, shown) EXCEPT !["load"] =
                   [@ EXCEPT !.pc = "fetch", !.ra = Sent("GET", url),
                             !.ev = proc["load"].ev
                                    \o <<Fetch("GET", url)>>
                                    \o (IF HasField(c) THEN <<<<"stale", url>>>>
                                        ELSE IF placeholder # {} THEN <<<<"placeholder", url>>>>
                                        ELSE <<>>)]]
  /\ UNCHANGED <<txFate, req, calc, page, session, CURRENT_USER, ui, server, cache, storeOk, closeBtn, alerted, submits>>

\* after `await cacheGet(key)`: stale render of the roots when the entry has
\* the list (else the placeholder, where the view has one), then the fetch
SwrStale(pg, url, roots, placeholder) ==
  /\ page = pg /\ proc["load"].pc = "stale"
  /\ LET c == proc["load"].cached
         shown == IF HasField(c) THEN roots ELSE placeholder IN
     /\ view' = render(view, shown, IF HasField(c) THEN Data(c) ELSE Cargando)
     /\ status' = renderStatus(status, shown)
     /\ proc' = [Detach(proc, shown) EXCEPT !["load"] =
                   [@ EXCEPT !.pc = "fetch", !.ra = Sent("GET", url),
                             !.ev = proc["load"].ev
                                    \o (IF HasField(c) THEN <<<<"stale", url>>>>
                                        ELSE IF placeholder # {} THEN <<<<"placeholder", url>>>>
                                        ELSE <<>>)
                                    \o <<Fetch("GET", url)>>]]
  /\ UNCHANGED <<txFate, req, calc, page, session, CURRENT_USER, ui, server, cache, storeOk, closeBtn, alerted, submits>>

\* SwrFetched with every view keeping its list under the one key "bootstrap"
SwrFetchedOneKey(pg, key) ==
  /\ page = pg /\ proc["load"].pc = "fetch" /\ proc["load"].ra.s = "ok"
  /\ cache' = cacheSet(cache, "bootstrap", proc["load"].ra.d)
  /\ proc' = [proc EXCEPT !["load"] =
                [@ EXCEPT !.pc = AfterCacheSet("set"), !.fresh = proc["load"].ra.d,
                          !.ev = Log("load", <<"cacheSet", "bootstrap">>)]]
  /\ UNCHANGED <<txFate, req, calc, page, session, CURRENT_USER, ui, server, storeOk, view, status, closeBtn, alerted, submits>>

\* the fetch resolved: cacheSet(key, fresh)
SwrFetched(pg, key) ==
  /\ page = pg /\ proc["load"].pc = "fetch" /\ proc["load"].ra.s = "ok"
  /\ cache' = cacheSet(cache, key, proc["load"].ra.d)
  /\ proc' = [proc EXCEPT !["load"] =
                [@ EXCEPT !.pc = AfterCacheSet("set"), !.fresh = proc["load"].ra.d,
                          !.ev = Log("load", <<"cacheSet", key>>)]]
  /\ UNCHANGED <<txFate, req, calc, page, session, CURRENT_USER, ui, server, storeOk, view, status, closeBtn, alerted, submits>>

\* SwrFresh with the fresh rows added to the rows already shown
SwrFreshMerged(pg, url, roots) ==
  /\ page = pg /\ proc["load"].pc = "set"
  /\ view' = render(view, roots, Data(proc["load"].cached \o proc["load"].fresh))
  /\ status' = renderStatus(status, roots)
  /\ proc' = [Detach(proc, roots) EXCEPT !["load"] =
                [@ EXCEPT !.pc = "done", !.ev = Log("load", <<"fresh", url>>)]]
  /\ UNCHANGED <<txFate, req, calc, page, session, CURRENT_USER, ui, server, cache, storeOk, closeBtn, alerted, submits>>

\* after `await cacheSet(key, fresh)`: the fresh render
SwrFresh(pg, url, roots) ==
  /\ page = pg /\ proc["load"].pc = "set"
  /\ view' = render(view, roots, Data(proc["load"].fresh))
  /\ status' = renderStatus(status, roots)
  /\ proc' = [Detach(proc, roots) EXCEPT !["load"] =
                [@ EXCEPT !.pc = "done", !.ev = Log("load", <<"fresh", url>>)]]
  /\ UNCHANGED <<txFate, req, calc, page, session, CURRENT_USER, ui, server, cache, storeOk, closeBtn, alerted, submits>>

\* SwrFailed with an empty catch
SwrFailedSilent(pg, url, root) ==
  /\ page = pg /\ proc["load"].pc = "fetch" /\ proc["load"].ra.s = "fail"
  /\ proc' = [proc EXCEPT !["load"].pc = "failed"]
  /\ UNCHANGED <<txFate, req, calc, page, session, CURRENT_USER, ui, server, cache, storeOk, view, status, closeBtn, alerted, submits>>

\* the fetch rejected: catch (e) { if (!cached) render(root, [alertNode(e.message)]) }
SwrFailed(pg, url, root) ==
  /\ page = pg /\ proc["load"].pc = "fetch" /\ proc["load"].ra.s = "fail"
  /\ IF proc["load"].cached = NULL
       THEN /\ view' = render(view, {root}, alertNode(Message(proc["load"].ra)))
            /\ status' = renderStatus(status, {root})
            /\ proc' = [Detach(proc, {root}) EXCEPT !["load"] =
                          [@ EXCEPT !.pc = "failed", !.ev = Log("load", <<"alert", url>>)]]
       ELSE /\ proc' = [proc EXCEPT !["load"].pc = "failed"]
            /\ UNCHANGED <<view, status>>
  /\ UNCHANGED <<txFate, req, calc, page, session, CURRENT_USER, ui, server, cache, storeOk, closeBtn, alerted, submits>>

\* ------------------------------------------------- form submit handlers
At(pg, kind, pc) == page = pg /\ proc["act"].kind = kind /\ proc["act"].pc = pc

\* a submit handler up to its first await: status.textContent = "" (where the
\* handler clears its status element), then the POST
HSubmit(pg, kind, url, el) ==
  /\ page = pg /\ Settled("act") /\ submits < MaxSubmits
  /\ submits' = submits + 1
  /\ status' = IF el # "paymentsBox" THEN [status EXCEPT ![el] = ""] ELSE status
  /\ proc' = [proc EXCEPT !["act"] =
                [Idle EXCEPT !.pc = "post", !.kind = kind, !.own = TRUE,
                             !.ra = Sent("POST", url), !.ev = <<Fetch("POST", url)>>]]
  /\ UNCHANGED <<txFate, req, calc, page, session, CURRENT_USER, ui, server, cache, storeOk, view, closeBtn, alerted>>

\* the awaited request resolved at `from`: the next fetchJson(url) is issued
HFetch(pg, kind, from, url, to) ==
  /\ At(pg, kind, from) /\ proc["act"].ra.s = "ok"
  /\ proc' = [proc EXCEPT !["act"] =
                [@ EXCEPT !.pc = to, !.ra = Sent("GET", url), !.ev = Log("act", Fetch("GET", url))]]
  /\ UNCHANGED <<txFate, req, calc, page, session, CURRENT_USER, ui, server, cache, storeOk, view, status, closeBtn, alerted, submits>>

\* the awaited GET resolved at `from`: cacheSet(key, response)
HCacheSet(pg, kind, from, key, to) ==
  /\ At(pg, kind, from) /\ proc["act"].ra.s = "ok"
  /\ cache' = cacheSet(cache, key, proc["act"].ra.d)
  /\ proc' = [proc EXCEPT !["act"] =
                [@ EXCEPT !.pc = AfterCacheSet(to), !.fresh = proc["act"].ra.d, !.ra = NoReq,
                          !.ev = Log("act", <<"cacheSet", key>>)]]
  /\ UNCHANGED <<txFate, req, calc, page, session, CURRENT_USER, ui, server, storeOk, view, status, closeBtn, alerted, submits>>

\* after `await cacheSet`: render the roots from the response, then issue the
\* next fetchJson(url), or finish when url is ""
HRender(pg, kind, from, roots, url, to) ==
  /\ At(pg, kind, from)
  /\ view' = render(view, roots, Data(proc["act"].fresh))
  /\ status' = renderStatus(status, roots)
  /\ proc' = [Detach(proc, roots) EXCEPT !["act"] =
                [@ EXCEPT !.pc = to,
                          !.own = IF kind \in UNION {KindsIn(r) : r \in roots} THEN FALSE ELSE @,
                          !.ra = IF url = "" THEN NoReq ELSE Sent("GET", url),
                          !.ev = proc["act"].ev
                                 \o (IF roots # {} THEN <<<<"render", kind>>>> ELSE <<>>)
                                 \o (IF url = "" THEN <<>> ELSE <<Fetch("GET", url)>>)]]
  /\ UNCHANGED <<txFate, req, calc, page, session, CURRENT_USER, ui, server, cache, storeOk, closeBtn, alerted, submits>>

\* HFailed with the error reported through window.alert
HFailedAlert(pg, kind, el) ==
  /\ page = pg /\ proc["act"].kind = kind /\ proc["act"].ra.s = "fail"
  /\ proc["act"].pc \notin {"failed", "done"}
  /\ alerted' = Message(proc["act"].ra)
  /\ proc' = [proc EXCEPT !["act"] =
                [@ EXCEPT !.pc = "failed", !.ev = Log("act", <<"status", el>>)]]
  /\ UNCHANGED <<txFate, req, calc, page, session, CURRENT_USER, ui, server, cache, storeOk, view, status, closeBtn, submits>>

\* catch (e) { status.textContent = e.message; }: the text shows while the
\* status element is still in the document
HFailed(pg, kind, el) ==
  /\ page = pg /\ proc["act"].kind = kind /\ proc["act"].ra.s = "fail"
  /\ proc["act"].pc \notin {"failed", "done"}
  /\ status' = IF proc["act"].own THEN [status EXCEPT ![el] = Message(proc["act"].ra)] ELSE status
  /\ proc' = [proc EXCEPT !["act"] =
                [@ EXCEPT !.pc = "failed", !.ev = Log("act", <<"status", el>>)]]
  /\ UNCHANGED <<txFate, req, calc, page, session, CURRENT_USER, ui, server, cache, storeOk, view, closeBtn, alerted, submits>>

\* ---------------------------------------------------------------- gastos
ExpStale == SwrStale("gastos", "/api/expenses", {"expenses"}, {})
ExpFetched == SwrFetched("gastos", "expenses")
ExpFresh == SwrFresh("gastos", "/api/expenses", {"expenses"})
ExpFailed == SwrFailed("gastos", "/api/expenses", "expenses")

\* the expense form exists once initExpenses called renderExpenseForm
ExpenseSubmit ==
  /\ proc["load"].pc # "stale"
  /\ HSubmit("gastos", "expense", "/api/expenses", "expense")
\* onCreated(): fetchJson("/api/expenses")
ExpensePosted == HFetch("gastos", "expense", "post", "/api/expenses", "refetch")
ExpenseRefetched == HCacheSet("gastos", "expense", "refetch", "expenses", "set")
\* renderExpenses(listRoot, fresh.expenses); then fetchJson("/api/bank/summary")
ExpenseRender == HRender("gastos", "expense", "set", {"expenses"}, "/api/bank/summary", "bank")
ExpenseBank == HCacheSet("gastos", "expense", "bank", "bankSummary", "set2")
\* the page has no bank roots: form.reset()
ExpenseDone == HRender("gastos", "expense", "set2", {}, "", "done")
ExpenseFailed == HFailed("gastos", "expense", "expense")

\* ----------------------------------------------------------------- banco
BankStale == SwrStale("banco", "/api/bank/summary", {"balance", "movements"}, {"balance"})
BankFetched == SwrFetched("banco", "bankSummary")
BankFresh == SwrFresh("banco", "/api/bank/summary", {"balance", "movements"})
BankFailed == SwrFailed("banco", "/api/bank/summary", "balance")

\* the month-close form exists once initBank called renderMonthClose
MonthCloseSubmit ==
  /\ proc["load"].pc # "stale"
  /\ HSubmit("banco", "monthClose", "/api/months/close", "monthClose")
MonthClosePosted == HFetch("banco", "monthClose", "post", "/api/bank/summary", "refetch")
MonthCloseRefetched == HCacheSet("banco", "monthClose", "refetch", "bankSummary", "set")
\* renderBankBalance, renderBankMovements; status.textContent = "Mes cerrado"
MonthCloseRender ==
  /\ At("banco", "monthClose", "set")
  /\ view' = render(view, {"balance", "movements"}, Data(proc["act"].fresh))
  /\ status' = [status EXCEPT !["monthClose"] = "Mes cerrado"]
  /\ proc' = [proc EXCEPT !["act"] =
                [@ EXCEPT !.pc = "done", !.ev = Log("act", <<"render", "monthClose">>)]]
  /\ UNCHANGED <<txFate, req, calc, page, session, CURRENT_USER, ui, server, cache, storeOk, closeBtn, alerted, submits>>
MonthCloseFailed == HFailed("banco", "monthClose", "monthClose")

\* ---------------------------------------------------------------- deudas
DebtStale == SwrStale("deudas", "/api/debts", {"debts"}, {})
DebtFetched == SwrFetched("deudas", "debts")
DebtFresh == SwrFresh("deudas", "/api/debts", {"debts"})
DebtFailed == SwrFailed("deudas", "/api/debts", "debts")

\* initDebts renders the debt form before its first await
DebtSubmit == HSubmit("deudas", "debt", "/api/debts", "debt")
DebtPosted == HFetch("deudas", "debt", "post", "/api/debts", "refetch")
DebtRefetched == HCacheSet("deudas", "debt", "refetch", "debts", "set")
DebtRender == HRender("deudas", "debt", "set", {"debts"}, "", "done")
DebtSubmitFailed == HFailed("deudas", "debt", "debt")

\* a row's payment form exists while the debts table is rendered
PaymentSubmit ==
  /\ view["debts"].k = "data"
  /\ HSubmit("deudas", "payment", "/api/debts/1/payments", "paymentsBox")
PaymentPosted == HFetch("deudas", "payment", "post", "/api/debts", "refetch")
PaymentRefetched == HCacheSet("deudas", "payment", "refetch", "debts", "set")
PaymentRender == HRender("deudas", "payment", "set", {"debts"}, "/api/bank/summary", "bank")
PaymentBank == HCacheSet("deudas", "payment", "bank", "bankSummary", "set2")
PaymentDone == HRender("deudas", "payment", "set2", {}, "", "done")
\* catch (e) { paymentsBox.textContent = e.message; }
PaymentFailed == HFailed("deudas", "payment", "paymentsBox")

\* the "Pagos" button: show the payment form and refreshPayments()
TogglePayments ==
  /\ page = "deudas" /\ view["debts"].k = "data"
  /\ Settled("act") /\ submits < MaxSubmits
  /\ submits' = submits + 1
  /\ proc' = [proc EXCEPT !["act"] =
                [Idle EXCEPT !.pc = "payments", !.kind = "toggle", !.own = TRUE,
                             !.ra = Sent("GET", "/api/debts/1/payments"),
                             !.ev = <<Fetch("GET", "/api/debts/1/payments")>>]]
  /\ UNCHANGED <<txFate, req, calc, page, session, CURRENT_USER, ui, server, cache, storeOk, view, status, closeBtn, alerted>>
\* refreshPayments: the payments table replaces the box's content
PaymentsShown ==
  /\ At("deudas", "toggle", "payments") /\ proc["act"].ra.s = "ok"
  /\ status' = IF proc["act"].own THEN [status EXCEPT !["paymentsBox"] = "payments table"] ELSE status
  /\ proc' = [proc EXCEPT !["act"].pc = "done"]
  /\ UNCHANGED <<txFate, req, calc, page, session, CURRENT_USER, ui, server, cache, storeOk, view, closeBtn, alerted, submits>>
PaymentsFailed == HFailed("deudas", "toggle", "paymentsBox")

\* -------------------------------------------------------------- ingresos
\* initCompaniesAndWorkEntries after `await cacheGet("companies")`: stale
\* render of the companies, then cacheGet("workEntries")
IngStaleCompanies ==
  /\ page = "ingresos" /\ proc["load"].pc = "stale"
  /\ LET c == proc["load"].cached
         shown == IF HasField(c) THEN {"companies"} ELSE {} IN
     /\ view' = render(view, shown, Data(c))
     /\ status' = renderStatus(status, shown)
     /\ proc' = [Detach(proc, shown) EXCEPT !["load"] =
                   [@ EXCEPT !.pc = "stale2", !.cached2 = cacheGet("workEntries"),
                             !.ev = proc["load"].ev
                                    \o (IF HasField(c) THEN <<<<"stale", "/api/companies">>>> ELSE <<>>)
                                    \o <<<<"cacheGet", "workEntries">>>>]]
  /\ UNCHANGED <<txFate, req, calc, page, session, CURRENT_USER, ui, server, cache, storeOk, closeBtn, alerted, submits>>

\* after `await cacheGet("workEntries")`: stale render of the entries, then
\* fetchJson("/api/companies")
IngStaleEntries ==
  /\ page = "ingresos" /\ proc["load"].pc = "stale2"
  /\ LET c == proc["load"].cached2
         shown == IF HasField(c) THEN {"entries"} ELSE {} IN
     /\ view' = render(view, shown, Data(c))
     /\ status' = renderStatus(status, shown)
     /\ proc' = [Detach(proc, shown) EXCEPT !["load"] =
                   [@ EXCEPT !.pc = "fetch", !.ra = Sent("GET", "/api/companies"),
                             !.ev = proc["load"].ev
                                    \o (IF HasField(c) THEN <<<<"stale", "/api/work-entries">>>> ELSE <<>>)
                                    \o <<Fetch("GET", "/api/companies")>>]]
  /\ UNCHANGED <<txFate, req, calc, page, session, CURRENT_USER, ui, server, cache, storeOk, closeBtn, alerted, submits>>

IngCompaniesFetched == SwrFetched("ingresos", "companies")

\* renderCompanies(companiesRoot, companies.companies); fetchJson("/api/work-entries")
IngCompaniesFresh ==
  /\ page = "ingresos" /\ proc["load"].pc = "set"
  /\ view' = render(view, {"companies"}, Data(proc["load"].fresh))
  /\ status' = renderStatus(status, {"companies"})
  /\ proc' = [Detach(proc, {"companies"}) EXCEPT !["load"] =
                [@ EXCEPT !.pc = "fetch2", !.ra = Sent("GET", "/api/work-entries"),
                          !.ev = proc["load"].ev \o <<<<"fresh", "/api/companies">>,
                                                      Fetch("GET", "/api/work-entries")>>]]
  /\ UNCHANGED <<txFate, req, calc, page, session, CURRENT_USER, ui, server, cache, storeOk, closeBtn, alerted, submits>>

\* cacheSet("workEntries", entries)
IngEntriesFetched ==
  /\ page = "ingresos" /\ proc["load"].pc = "fetch2" /\ proc["load"].ra.s = "ok"
  /\ cache' = cacheSet(cache, "workEntries", proc["load"].ra.d)
  /\ proc' = [proc EXCEPT !["load"] =
                [@ EXCEPT !.pc = AfterCacheSet("set2"), !.fresh = proc["load"].ra.d,
                          !.ev = Log("load", <<"cacheSet", "workEntries">>)]]
  /\ UNCHANGED <<txFate, req, calc, page, session, CURRENT_USER, ui, server, storeOk, view, status, closeBtn, alerted, submits>>

\* renderWorkEntries(entriesRoot, entries.entries, companies.companies)
IngEntriesFresh ==
  /\ page = "ingresos" /\ proc["load"].pc = "set2"
  /\ view' = render(view, {"entries"}, Data(proc["load"].fresh))
  /\ status' = renderStatus(status, {"entries"})
  /\ proc' = [Detach(proc, {"entries"}) EXCEPT !["load"] =
                [@ EXCEPT !.pc = "done", !.ev = Log("load", <<"fresh", "/api/work-entries">>)]]
  /\ UNCHANGED <<txFate, req, calc, page, session, CURRENT_USER, ui, server, cache, storeOk, closeBtn, alerted, submits>>

\* catch (e): an alert in each root whose cache read gave null
IngFailed ==
  /\ page = "ingresos" /\ proc["load"].pc \in {"fetch", "fetch2"} /\ proc["load"].ra.s = "fail"
  /\ LET shown == (IF proc["load"].cached = NULL THEN {"companies"} ELSE {})
                  \cup (IF proc["load"].cached2 = NULL THEN {"entries"} ELSE {}) IN
     /\ view' = render(view, shown, alertNode(Message(proc["load"].ra)))
     /\ status' = renderStatus(status, shown)
     /\ proc' = [Detach(proc, shown) EXCEPT !["load"] =
                   [@ EXCEPT !.pc = "failed",
                             !.ev = proc["load"].ev
                                    \o (IF proc["load"].cached = NULL
                                          THEN <<<<"alert", "/api/companies">>>> ELSE <<>>)
                                    \o (IF proc["load"].cached2 = NULL
                                          THEN <<<<"alert", "/api/work-entries">>>> ELSE <<>>)]]
  /\ UNCHANGED <<txFate, req, calc, page, session, CURRENT_USER, ui, server, cache, storeOk, closeBtn, alerted, submits>>

\* the company form is part of the rendered companies card
CompanySubmit ==
  /\ view["companies"].k = "data"
  /\ HSubmit("ingresos", "company", "/api/companies", "company")
CompanyPosted == HFetch("ingresos", "company", "post", "/api/companies", "refetch")
CompanyRefetched == HCacheSet("ingresos", "company", "refetch", "companies", "set")
CompanyRender == HRender("ingresos", "company", "set", {"companies"}, "/api/work-entries", "entries")
CompanyEntries == HCacheSet("ingresos", "company", "entries", "workEntries", "set2")
CompanyDone == HRender("ingresos", "company", "set2", {"entries"}, "", "done")
CompanyFailed == HFailed("ingresos", "company", "company")

\* the work-entry form is part of the rendered entries card
EntrySubmit ==
  /\ view["entries"].k = "data"
  /\ HSubmit("ingresos", "entry", "/api/work-entries", "entry")
EntryPosted == HFetch("ingresos", "entry", "post", "/api/work-entries", "refetch")
EntryRefetched == HCacheSet("ingresos", "entry", "refetch", "workEntries", "set")
EntryRender == HRender("ingresos", "entry", "set", {"entries"}, "", "done")
EntryFailed == HFailed("ingresos", "entry", "entry")

\* -------------------------------------------------------------- role gate
ROLE_LEVEL ==
  [ROLE_FREE |-> 10, ROLE_PREMIUM |-> 20, ROLE_ADMIN |-> 30,
   ROLE_SUPER_ADMIN |-> 40, ROLE_OWNER |-> 50]

\* the role strings a session's user may carry: the five roles, a role the
\* table does not list, no role at all (""), and a name every object
\* inherits from Object.prototype
SessionRoles == DOMAIN ROLE_LEVEL \cup {"ROLE_GUEST", "", "constructor"}

\* CURRENT_USER = null
NoUser == "null"

\* CURRENT_USER?.role, with a missing role as ""
RoleOf(u) == IF u = NoUser THEN "" ELSE u

\* JavaScript values: numbers, and the functions found on Object.prototype
JsNumber(n) == [t |-> "number", n |-> n]
JsFunction == [t |-> "function", n |-> 0]
ObjectPrototype == {"constructor", "toString", "valueOf", "hasOwnProperty",
                    "isPrototypeOf", "propertyIsEnumerable", "toLocaleString"}

\* ROLE_LEVEL[String(role || "")] || 0: the property lookup finds own
\* properties, then inherited ones; undefined falls to 0
roleLevel(role) ==
  IF role \in DOMAIN ROLE_LEVEL THEN JsNumber(ROLE_LEVEL[role])
  ELSE IF role \in ObjectPrototype THEN JsFunction
  ELSE JsNumber(0)

\* a >= b with b a number: a function converts to NaN, and NaN >= b is false
AtLeast(a, b) == a.t = "number" /\ a.n >= b

\* updateNavVisibility(): the admin links' style.display
updateNavVisibility(u) ==
  IF AtLeast(roleLevel(RoleOf(u)), ROLE_LEVEL.ROLE_ADMIN) THEN "" ELSE "none"

\* initMe after `await fetchJson("/api/me")`: CURRENT_USER = me.user || null,
\* or null in the catch; then updateNavVisibility()
MeDone ==
  /\ proc["me"].pc = "me" /\ proc["me"].ra.s \in {"ok", "fail"}
  /\ LET u == IF proc["me"].ra.s = "ok" THEN proc["me"].ra.user ELSE NoUser IN
     /\ CURRENT_USER' = u
     /\ ui' = [ui EXCEPT !.nav = updateNavVisibility(u)]
  /\ proc' = [proc EXCEPT !["me"] = [@ EXCEPT !.pc = "done", !.ra = NoReq]]
  /\ UNCHANGED <<txFate, req, calc, page, session, server, cache, storeOk, view, status, closeBtn, alerted, submits>>

\* -------------------------------------------------------------- reportes
\* loadReport(y, m) up to `await cacheGet(key)`
LoadReport(q, ev) ==
  [Idle EXCEPT !.pc = "stale", !.kind = "report", !.per = q, !.own = TRUE,
               !.cached = cacheGet(ReportKey(q.year, q.month)),
               !.ev = ev \o <<<<"cacheGet", ReportKey(q.year, q.month)>>>>]

\* initReports after its `await fetchJson("/api/me")` (CURRENT_USER was null
\* when the script started): CURRENT_USER = me.user || null and
\* updateNavVisibility(), or nothing in the catch; isPremium; the form, the
\* status and the content are rendered; loadReport(year, month)
RepMe ==
  /\ page = "reportes" /\ proc["load"].pc = "me" /\ proc["load"].ra.s \in {"ok", "fail"}
  /\ LET u == IF proc["load"].ra.s = "ok" THEN proc["load"].ra.user ELSE CURRENT_USER IN
     /\ CURRENT_USER' = u
     /\ ui' = [ui EXCEPT !.nav = IF proc["load"].ra.s = "ok" THEN updateNavVisibility(u) ELSE @,
                         !.isPremium = AtLeast(roleLevel(RoleOf(u)), ROLE_LEVEL.ROLE_PREMIUM)]
  /\ proc' = [proc EXCEPT !["load"] = LoadReport(Now, proc["load"].ev)]
  /\ UNCHANGED <<txFate, req, calc, page, session, server, cache, storeOk, view, status, closeBtn, alerted, submits>>

\* the form's submit handler: status.textContent = ""; loadReport(year, month)
ReportSubmit(q) ==
  /\ page = "reportes" /\ proc["load"].pc # "me"
  /\ Settled("act") /\ submits < MaxSubmits
  /\ submits' = submits + 1
  /\ status' = [status EXCEPT !["report"] = ""]
  /\ proc' = [proc EXCEPT !["act"] = LoadReport(q, <<>>)]
  /\ UNCHANGED <<txFate, req, calc, page, session, CURRENT_USER, ui, server, cache, storeOk, view, closeBtn, alerted>>

\* loadReport after `await cacheGet(key)`: stale render or placeholder, then
\* the fetch
RepStale(p) ==
  /\ page = "reportes" /\ proc[p].pc = "stale"
  /\ LET c == proc[p].cached
         url == ReportUrl(proc[p].per.year, proc[p].per.month) IN
     /\ view' = render(view, {"content"}, IF HasField(c) THEN Data(c) ELSE Cargando)
     /\ proc' = [proc EXCEPT ![p] =
                   [@ EXCEPT !.pc = "fetch", !.ra = Sent("GET", url),
                             !.ev = proc[p].ev
                                    \o <<IF HasField(c) THEN <<"stale", url>> ELSE <<"placeholder", url>>,
                                         Fetch("GET", url)>>]]
  /\ UNCHANGED <<txFate, req, calc, page, session, CURRENT_USER, ui, server, cache, storeOk, status, closeBtn, alerted, submits>>

\* the fetch resolved: cacheSet(key, fresh)
RepFetched(p) ==
  /\ page = "reportes" /\ proc[p].pc = "fetch" /\ proc[p].ra.s = "ok"
  /\ cache' = cacheSet(cache, ReportKey(proc[p].per.year, proc[p].per.month), proc[p].ra.d)
  /\ proc' = [proc EXCEPT ![p] =
                [@ EXCEPT !.pc = AfterCacheSet("set"), !.fresh = proc[p].ra.d,
                          !.ev = Log(p, <<"cacheSet", ReportKey(proc[p].per.year, proc[p].per.month)>>)]]
  /\ UNCHANGED <<txFate, req, calc, page, session, CURRENT_USER, ui, server, storeOk, view, status, closeBtn, alerted, submits>>

\* renderMonthlyReport(content, fresh); status.textContent = fresh.isClosed ? ...
RepFresh(p) ==
  /\ page = "reportes" /\ proc[p].pc = "set"
  /\ view' = render(view, {"content"}, Data(proc[p].fresh))
  /\ status' = [status EXCEPT !["report"] =
                  IF proc[p].fresh[1].v > 1 THEN "Mes cerrado" ELSE "Mes abierto"]
  /\ proc' = [proc EXCEPT ![p] =
                [@ EXCEPT !.pc = "done",
                          !.ev = Log(p, <<"fresh", ReportUrl(proc[p].per.year, proc[p].per.month)>>)]]
  /\ UNCHANGED <<txFate, req, calc, page, session, CURRENT_USER, ui, server, cache, storeOk, closeBtn, alerted, submits>>

\* catch (e) { status.textContent = e.message; if (!cached) render(content, [alertNode(e.message)]); }
RepFailed(p) ==
  /\ page = "reportes" /\ proc[p].pc = "fetch" /\ proc[p].ra.s = "fail"
  /\ status' = [status EXCEPT !["report"] = Message(proc[p].ra)]
  /\ IF proc[p].cached = NULL
       THEN /\ view' = render(view, {"content"}, alertNode(Message(proc[p].ra)))
            /\ proc' = [proc EXCEPT ![p] =
                          [@ EXCEPT !.pc = "failed",
                                    !.ev = proc[p].ev \o <<<<"status", "report">>, <<"alert", proc[p].ra.url>>>>]]
       ELSE /\ proc' = [proc EXCEPT ![p] =
                          [@ EXCEPT !.pc = "failed", !.ev = Log(p, <<"status", "report">>)]]
            /\ UNCHANGED view
  /\ UNCHANGED <<txFate, req, calc, page, session, CURRENT_USER, ui, server, cache, storeOk, closeBtn, alerted, submits>>

\* ----------------------------------------------------------------- admin
\* renderAdmin(root, users, logs): the role controls are enabled and the
\* audit card is added at SUPER_ADMIN
renderAdmin(u, users, logs) ==
  [canSetRole |-> AtLeast(roleLevel(RoleOf(u)), ROLE_LEVEL.ROLE_SUPER_ADMIN),
   auditCard |-> AtLeast(roleLevel(RoleOf(u)), ROLE_LEVEL.ROLE_SUPER_ADMIN),
   shown |-> users \o (IF AtLeast(roleLevel(RoleOf(u)), ROLE_LEVEL.ROLE_SUPER_ADMIN)
                         THEN logs ELSE <<>>)]

\* initAdmin after its `await fetchJson("/api/me")` (CURRENT_USER was null when
\* the script started): CURRENT_USER = me.user || CURRENT_USER and
\* updateNavVisibility(), or nothing in the catch; then refresh() asks for
\* the users
AdminMe ==
  /\ page = "admin" /\ proc["load"].pc = "me" /\ proc["load"].ra.s \in {"ok", "fail"}
  /\ LET u == IF proc["load"].ra.s = "ok" THEN proc["load"].ra.user ELSE CURRENT_USER IN
     /\ CURRENT_USER' = u
     /\ ui' = [ui EXCEPT !.nav = IF proc["load"].ra.s = "ok" THEN updateNavVisibility(u) ELSE @]
  /\ proc' = [proc EXCEPT !["load"] =
                [@ EXCEPT !.pc = "users", !.ra = Sent("GET", "/api/admin/users"),
                          !.ev = Log("load", Fetch("GET", "/api/admin/users"))]]
  /\ UNCHANGED <<txFate, req, calc, page, session, server, cache, storeOk, view, status, closeBtn, alerted, submits>>

\* refresh() after the users arrived: the audit log is fetched at
\* SUPER_ADMIN, otherwise renderAdmin(root, users, [])
AdminUsers(p) ==
  /\ page = "admin" /\ proc[p].pc = "users" /\ proc[p].ra.s = "ok"
  /\ IF AtLeast(roleLevel(RoleOf(CURRENT_USER)), ROLE_LEVEL.ROLE_SUPER_ADMIN)
       THEN /\ proc' = [proc EXCEPT ![p] =
                          [@ EXCEPT !.pc = "audit", !.fresh = proc[p].ra.d,
                                    !.ra = Sent("GET", "/api/admin/audit"),
                                    !.ev = Log(p, Fetch("GET", "/api/admin/audit"))]]
            /\ UNCHANGED <<view, ui>>
       ELSE LET a == renderAdmin(CURRENT_USER, proc[p].ra.d, <<>>) IN
            /\ view' = render(view, {"admin"}, Data(a.shown))
            /\ ui' = [ui EXCEPT !.canSetRole = a.canSetRole, !.auditCard = a.auditCard]
            /\ proc' = [proc EXCEPT ![p] =
                          [@ EXCEPT !.pc = "done", !.ra = NoReq, !.ev = Log(p, <<"render", "admin">>)]]
  /\ UNCHANGED <<txFate, req, calc, page, session, CURRENT_USER, server, cache, storeOk, status, closeBtn, alerted, submits>>

\* refresh() after the audit log arrived: renderAdmin(root, users, logs)
AdminAudit(p) ==
  /\ page = "admin" /\ proc[p].pc = "audit" /\ proc[p].ra.s = "ok"
  /\ LET a == renderAdmin(CURRENT_USER, proc[p].fresh, proc[p].ra.d) IN
     /\ view' = render(view, {"admin"}, Data(a.shown))
     /\ ui' = [ui EXCEPT !.canSetRole = a.canSetRole, !.auditCard = a.auditCard]
  /\ proc' = [proc EXCEPT ![p] =
                [@ EXCEPT !.pc = "done", !.ra = NoReq, !.ev = Log(p, <<"render", "admin">>)]]
  /\ UNCHANGED <<txFate, req, calc, page, session, CURRENT_USER, server, cache, storeOk, status, closeBtn, alerted, submits>>

\* a rejected fetch of refresh(), or a rejected POST of a handler: nothing
\* catches it, the page stays as it is
AdminRejected(p) ==
  /\ page = "admin" /\ proc[p].pc \in {"users", "audit", "post"} /\ proc[p].ra.s = "fail"
  /\ proc' = [proc EXCEPT ![p].pc = "failed"]
  /\ UNCHANGED <<txFate, req, calc, page, session, CURRENT_USER, ui, server, cache, storeOk, view, status, closeBtn, alerted, submits>>

\* the controls of a row (another user, a ROLE_FREE account that is not
\* deleted) and the claim button: the role select and the two buttons are
\* disabled unless canSetRole
ControlEnabled(kind) == kind \in {"set-role", "soft-delete", "recover"} => ui.canSetRole

\* a control's handler up to its first await: doubleConfirm, then the POST
AdminAction(kind, answers) ==
  /\ page = "admin" /\ view["admin"].k = "data" /\ ControlEnabled(kind)
  /\ Settled("act") /\ submits < MaxSubmits
  /\ submits' = submits + 1
  /\ LET dc == doubleConfirm(answers) IN
     proc' = [proc EXCEPT !["act"] =
                IF dc.ok
                  THEN [Idle EXCEPT !.pc = "post", !.kind = kind, !.own = TRUE,
                                    !.ra = Sent("POST", AdminUrl(kind)),
                                    !.ev = ConfirmEvents(dc.asked) \o <<Fetch("POST", AdminUrl(kind))>>]
                  ELSE [Idle EXCEPT !.pc = "cancelled", !.kind = kind, !.own = TRUE,
                                    !.ev = ConfirmEvents(dc.asked)]]
  /\ UNCHANGED <<txFate, req, calc, page, session, CURRENT_USER, ui, server, cache, storeOk, view, status, closeBtn, alerted>>

\* after the POST of a row's control: refresh()
AdminPosted ==
  /\ page = "admin" /\ proc["act"].pc = "post" /\ proc["act"].ra.s = "ok"
  /\ proc["act"].kind # "claim-owner"
  /\ proc' = [proc EXCEPT !["act"] =
                [@ EXCEPT !.pc = "users", !.ra = Sent("GET", "/api/admin/users"),
                          !.ev = Log("act", Fetch("GET", "/api/admin/users"))]]
  /\ UNCHANGED <<txFate, req, calc, page, session, CURRENT_USER, ui, server, cache, storeOk, view, status, closeBtn, alerted, submits>>

\* ------------------------------------------------------------------ init
\* the keys a page's views read
PageKeys(pg) ==
  CASE pg = "dashboard" -> {"bootstrap", DashKey(Now.year, Now.month)}
    [] pg = "ingresos" -> {"companies", "workEntries"}
    [] pg = "gastos" -> {"expenses"}
    [] pg = "banco" -> {"bankSummary"}
    [] pg = "deudas" -> {"debts"}
    [] pg = "reportes" -> {ReportKey(q.year, q.month) : q \in Periods}
    [] OTHER -> {}

\* the resource whose answer a key holds
UrlOf(k) ==
  CASE k = "bootstrap" -> "/api/bootstrap"
    [] k = "companies" -> "/api/companies"
    [] k = "workEntries" -> "/api/work-entries"
    [] k = "expenses" -> "/api/expenses"
    [] k = "bankSummary" -> "/api/bank/summary"
    [] k = "debts" -> "/api/debts"
    [] OTHER -> CHOOSE u \in {ReportUrl(q.year, q.month) : q \in Periods} :
                  \E q \in Periods : k = ReportKey(q.year, q.month) /\ u = ReportUrl(q.year, q.month)

\* what an earlier session left under a key
Earlier(k) ==
  IF k = DashKey(Now.year, Now.month)
    THEN Payload("/api/bootstrap", 0) \o Payload(ReportUrl(Now.year, Now.month), 0)
    ELSE Payload(UrlOf(k), 0)

\* the store at the start of the session: entries left by earlier sessions
\* under the page's keys (a store that cannot be read shows none)
InitCache(pg, ok) ==
  {[k \in Keys |-> IF k \in S THEN Earlier(k) ELSE NULL] :
     S \in {T \in SUBSET PageKeys(pg) :
              /\ DashKey(Now.year, Now.month) \in T => "bootstrap" \in T
              /\ ~ok => T = {}}}

\* the accounts a page is opened with: every role string where the admin
\* gates are, both sides of the premium gate on the reports page
SessionsOf(pg) ==
  CASE pg = "admin" -> SessionRoles
    [] pg = "reportes" -> {"ROLE_FREE", "ROLE_PREMIUM"}
    [] OTHER -> {"ROLE_FREE"}

\* the first cacheGet of the page's init function
FirstKey(pg) ==
  CASE pg = "dashboard" -> DashKey(Now.year, Now.month)
    [] pg = "ingresos" -> "companies"
    [] pg = "gastos" -> "expenses"
    [] pg = "banco" -> "bankSummary"
    [] pg = "deudas" -> "debts"
    [] OTHER -> "bootstrap"

\* the pages with role-gated elements; elsewhere nothing reads CURRENT_USER
\* and initMe is left out
Gated == {"reportes", "admin"}

\* the processes when the script's top-level init calls have returned: initMe
\* waits for /api/me; the page's init function waits for its first cacheGet
\* or, on the gated pages (CURRENT_USER is still null), for /api/me
InitProc(pg, c, ok) ==
  [p \in Procs |->
     CASE p = "me" /\ pg \in Gated ->
            [Idle EXCEPT !.pc = "me", !.kind = "me", !.ra = Sent("GET", "/api/me")]
       [] p = "load" /\ pg \in Gated ->
            [Idle EXCEPT !.pc = "me", !.ra = Sent("GET", "/api/me"),
                         !.ev = <<Fetch("GET", "/api/me")>>]
       [] p = "load" /\ pg \notin Gated ->
            [Idle EXCEPT !.pc = "stale",
                         !.cached = IF ok THEN c[FirstKey(pg)] ELSE NULL,
                         !.ev = <<<<"cacheGet", FirstKey(pg)>>>>]
       [] OTHER -> Idle]

\* the gated elements before any gate was evaluated: the admin links as the
\* page's HTML has them, no premium buttons, no admin controls
NoUi == [nav |-> "html", isPremium |-> FALSE, canSetRole |-> FALSE, auditCard |-> FALSE]

\* the roots when the top-level init calls have returned: initAdmin has
\* rendered its placeholder
InitView(pg) == [r \in Roots |-> IF pg = "admin" /\ r = "admin" THEN Cargando ELSE Blank]

\* after the claim's POST: window.location.reload() starts the script anew
ClaimReload ==
  /\ page = "admin" /\ proc["act"].pc = "post" /\ proc["act"].ra.s = "ok"
  /\ proc["act"].kind = "claim-owner"
  /\ CURRENT_USER' = NoUser
  /\ ui' = NoUi
  /\ view' = InitView("admin")
  /\ status' = [e \in StatusEls |-> ""]
  /\ proc' = InitProc("admin", cache, Readable)
  /\ UNCHANGED <<txFate, req, calc, page, session, server, cache, storeOk, closeBtn, alerted, submits>>

\* no fetchJson call is followed, no helper call was made
NoCall == [phase |-> "idle", method |-> "", timer |-> "none", aborted |-> FALSE, status |-> 0,
           json |-> [null |-> TRUE, ok |-> "absent", error |-> "absent"], message |-> ""]
NoCalc == [f |-> "none"]

Init ==
  /\ page \in Pages
  /\ session \in SessionsOf(page)
  /\ CURRENT_USER = NoUser
  /\ ui = NoUi
  /\ storeOk \in BOOLEAN
  /\ txFate \in IF storeOk THEN TxFates ELSE {"complete"}
  /\ server = [x \in Resources |-> 1]
  /\ cache \in InitCache(page, Readable)
  /\ view = InitView(page)
  /\ status = [e \in StatusEls |-> ""]
  /\ closeBtn = "none"
  /\ alerted = ""
  /\ submits = 0
  /\ proc = InitProc(page, cache, Readable)
  /\ req = NoCall
  /\ calc = NoCalc

Network == \E p \in Procs, slot \in {"ra", "rb"}, okay \in BOOLEAN : ServerRespond(p, slot, okay)

Dashboard ==
  \/ DashStale \/ DashJoined \/ DashSet1 \/ DashFresh \/ DashFailed
  \/ \E answers \in Answers : CloseClick(answers)
  \/ ClosePosted \/ ClosePostFailed \/ CloseJoined \/ CloseJoinFailed
  \/ CloseSet1 \/ CloseSet2 \/ CloseBank \/ CloseBankFailed \/ CloseRender

Ingresos ==
  \/ IngStaleCompanies \/ IngStaleEntries \/ IngCompaniesFetched \/ IngCompaniesFresh
  \/ IngEntriesFetched \/ IngEntriesFresh \/ IngFailed
  \/ CompanySubmit \/ CompanyPosted \/ CompanyRefetched \/ CompanyRender
  \/ CompanyEntries \/ CompanyDone \/ CompanyFailed
  \/ EntrySubmit \/ EntryPosted \/ EntryRefetched \/ EntryRender \/ EntryFailed

Gastos ==
  \/ ExpStale \/ ExpFetched \/ ExpFresh \/ ExpFailed
  \/ ExpenseSubmit \/ ExpensePosted \/ ExpenseRefetched \/ ExpenseRender
  \/ ExpenseBank \/ ExpenseDone \/ ExpenseFailed

Banco ==
  \/ BankStale \/ BankFetched \/ BankFresh \/ BankFailed
  \/ MonthCloseSubmit \/ MonthClosePosted \/ MonthCloseRefetched
  \/ MonthCloseRender \/ MonthCloseFailed

Deudas ==
  \/ DebtStale \/ DebtFetched \/ DebtFresh \/ DebtFailed
  \/ DebtSubmit \/ DebtPosted \/ DebtRefetched \/ DebtRender \/ DebtSubmitFailed
  \/ PaymentSubmit \/ PaymentPosted \/ PaymentRefetched \/ PaymentRender
  \/ PaymentBank \/ PaymentDone \/ PaymentFailed
  \/ TogglePayments \/ PaymentsShown \/ PaymentsFailed

Reportes ==
  \/ RepMe
  \/ \E q \in Periods : ReportSubmit(q)
  \/ \E p \in {"load", "act"} :
       RepStale(p) \/ RepFetched(p) \/ RepFresh(p) \/ RepFailed(p)

Admin ==
  \/ AdminMe
  \/ \E p \in {"load", "act"} : AdminUsers(p) \/ AdminAudit(p) \/ AdminRejected(p)
  \/ \E kind \in AdminKinds, answers \in Answers : AdminAction(kind, answers)
  \/ AdminPosted \/ ClaimReload

Next ==
  \/ Network \/ MeDone
  \/ Dashboard \/ Ingresos \/ Gastos \/ Banco \/ Deudas \/ Reportes \/ Admin

Spec == Init /\ [][Next]_vars

\* ======================================================= the cache alone
\* cacheGet and cacheSet called directly, on a store whose availability
\* changes between the calls.

\* no async function of a page is running
AppAtRest ==
  /\ page = "gastos" /\ session = "ROLE_FREE" /\ CURRENT_USER = NoUser /\ ui = NoUi
  /\ server = [x \in Resources |-> 1]
  /\ view = InitView(page) /\ status = [e \in StatusEls |-> ""]
  /\ closeBtn = "none" /\ alerted = "" /\ submits = 0
  /\ proc = [p \in Procs |-> Idle]

\* the keys and payloads of the calls
CallKeys == {"expenses", "bankSummary", "debts"}
CallData(k) == {Payload(UrlOf(k), v) : v \in 1..MaxData}

\* calc.last: per key, the data of the last cacheSet that completed;
\* calc.read: whether the store could be read when the call was made
InitStore ==
  /\ AppAtRest /\ req = NoCall
  /\ storeOk = TRUE /\ txFate = "complete"
  /\ cache \in {[k \in Keys |-> IF k \in S THEN Earlier(k) ELSE NULL] : S \in SUBSET {"expenses"}}
  /\ calc = [f |-> "none", key |-> "", data |-> NULL, out |-> NULL, read |-> TRUE, last |-> cache]

\* indexedDB.open starts or stops failing, transactions start or stop failing
StoreChanges ==
  /\ storeOk' \in BOOLEAN
  /\ txFate' \in IF storeOk' THEN TxFates ELSE {"complete"}
  /\ <<storeOk', txFate'>> # <<storeOk, txFate>>
  /\ UNCHANGED <<app, cache, req, calc>>

\* await cacheSet(k, d): out tells whether the promise settled
CacheSetCall(k, d) ==
  /\ cache' = cacheSet(cache, k, d)
  /\ calc' = [f |-> "cacheSet", key |-> k, data |-> d,
              out |-> IF AfterCacheSet("resolved") = "resolved" THEN NULL ELSE Rejected,
              read |-> Readable,
              last |-> IF Writable THEN [calc.last EXCEPT ![k] = d] ELSE calc.last]
  /\ UNCHANGED <<app, storeOk, txFate, req>>

\* await cacheGet(k): out is the value the promise resolved to
CacheGetCall(k) ==
  /\ calc' = [f |-> "cacheGet", key |-> k, data |-> NULL, out |-> cacheGet(k),
              read |-> Readable, last |-> calc.last]
  /\ UNCHANGED <<app, cache, storeOk, txFate, req>>

NextStore ==
  \/ StoreChanges
  \/ \E k \in CallKeys : \E d \in CallData(k) : CacheSetCall(k, d)
  \/ \E k \in CallKeys : CacheGetCall(k)

SpecStore == InitStore /\ [][NextStore]_vars

\* ===================================================== fetchJson alone
\* One fetchJson call at a time, followed through its two awaits: fetch(url)
\* ("fetch": no response yet) and res.json() ("json": the status line and
\* the headers arrived, the body is being read).  req.timer is the timer of
\* setTimeout(() => ctrl.abort(), 12000).

\* res.status of the responses, and res.ok
Statuses == {200, 201, 401, 404, 500}
ResOk(st) == st \in 200..299

\* what res.json() can give: null (the JSON literal) or an object with or
\* without the fields ok and error; error is a text, possibly empty
JsonNull == [null |-> TRUE, ok |-> "absent", error |-> "absent"]
Jsons ==
  {JsonNull} \cup {[null |-> FALSE, ok |-> o, error |-> e] :
                     o \in {"absent", "true", "false"}, e \in {"absent", "", "No autorizado"}}

\* json?.error || fallback
ErrorOr(json, fallback) ==
  IF ~json.null /\ json.error \notin {"absent", ""} THEN json.error ELSE fallback

\* fetchJsonResult looking at the status only
fetchJsonStatusOnly(st, json) ==
  IF ~ResOk(st)
    THEN [phase |-> "rejected", message |-> ErrorOr(json, "Error " \o ToString(st))]
    ELSE [phase |-> "resolved", message |-> ""]

\* fetchJson from `if (!res.ok)` to its return or throw
fetchJsonResult(st, json) ==
  IF ~ResOk(st)
    THEN [phase |-> "rejected", message |-> ErrorOr(json, "Error " \o ToString(st))]
  ELSE IF ~json.null /\ json.ok = "false"
    THEN [phase |-> "rejected", message |-> ErrorOr(json, "Error")]
  ELSE [phase |-> "resolved", message |-> ""]

\* a return path that leaves the timer running
timerLeftRunning(timer) == timer

\* finally { clearTimeout(timeout) }
clearTimeout(timer) == "cleared"

InitFetch ==
  /\ AppAtRest /\ calc = NoCalc
  /\ storeOk = TRUE /\ txFate = "complete" /\ cache = [k \in Keys |-> NULL]
  /\ req = NoCall

\* fetchJson(url, opts) up to `await fetch(...)`
FetchCall(method) ==
  /\ req.phase \in {"idle", "resolved", "rejected"}
  /\ req' = [NoCall EXCEPT !.phase = "fetch", !.method = method, !.timer = "armed"]
  /\ UNCHANGED <<app, cache, storeOk, txFate, calc>>

\* the response's status line and headers arrive: fetch() resolves, the
\* function goes on to `await res.json()`
Responds(st) ==
  /\ req.phase = "fetch" /\ ~req.aborted
  /\ req' = [req EXCEPT !.phase = "json", !.status = st]
  /\ UNCHANGED <<app, cache, storeOk, txFate, calc>>

\* the connection fails: fetch() rejects, the finally block runs, the
\* rejection leaves fetchJson
NetworkError ==
  /\ req.phase = "fetch" /\ ~req.aborted
  /\ req' = [req EXCEPT !.phase = "rejected", !.message = "Failed to fetch",
                         !.timer = clearTimeout(req.timer)]
  /\ UNCHANGED <<app, cache, storeOk, txFate, calc>>

\* the body was read: res.json() resolves, or rejects on a body that is not
\* JSON and .catch(() => null) makes it null; then the checks, the finally
BodyRead(parsed, json) ==
  /\ req.phase = "json" /\ ~req.aborted
  /\ LET j == IF parsed THEN json ELSE JsonNull
         r == fetchJsonResult(req.status, j) IN
     req' = [req EXCEPT !.phase = r.phase, !.message = r.message, !.json = j,
                        !.timer = clearTimeout(req.timer)]
  /\ UNCHANGED <<app, cache, storeOk, txFate, calc>>

\* the timer's callback: ctrl.abort()
TimerFires ==
  /\ req.timer = "armed"
  /\ req' = [req EXCEPT !.timer = "fired", !.aborted = TRUE]
  /\ UNCHANGED <<app, cache, storeOk, txFate, calc>>

\* the abort reaches the pending await: fetch() rejects with an AbortError,
\* which leaves fetchJson through the finally; a pending res.json() rejects
\* too, but .catch(() => null) turns that into json = null and the function
\* goes on to its checks
AbortSeen ==
  /\ req.aborted /\ req.phase \in {"fetch", "json"}
  /\ LET r == IF req.phase = "fetch"
                THEN [phase |-> "rejected", message |-> "The operation was aborted."]
                ELSE fetchJsonResult(req.status, JsonNull) IN
     req' = [req EXCEPT !.phase = r.phase, !.message = r.message,
                        !.timer = clearTimeout(req.timer)]
  /\ UNCHANGED <<app, cache, storeOk, txFate, calc>>

NextFetch ==
  \/ \E method \in {"GET", "POST"} : FetchCall(method)
  \/ \E st \in Statuses : Responds(st)
  \/ NetworkError
  \/ \E parsed \in BOOLEAN, json \in Jsons : BodyRead(parsed, json)
  \/ TimerFires
  \/ AbortSeen

\* timers fire and continuations run; the network owes nothing
SpecFetch ==
  InitFetch /\ [][NextFetch]_vars /\ WF_vars(TimerFires) /\ WF_vars(AbortSeen)

\* ============================================================== numbers
\* JavaScript numbers are IEEE 754 doubles.  A positive double is kept as
\* [m, e]: m its significand, a sequence of bits with the most significant
\* first (m[1] = 1), e the exponent of m[1]; its value is the sum of
\* m[i] * 2^(e + 1 - i).  Zero and the sign are handled by the callers.
\* The arithmetic below works on nine bits at a time, which keeps every
\* intermediate integer small.

\* the bits of a double's significand
Precision == 53

RECURSIVE Pow2(_)
Pow2(n) == IF n = 0 THEN 1 ELSE 2 * Pow2(n - 1)
RECURSIVE Pow10(_)
Pow10(n) == IF n = 0 THEN 1 ELSE 10 * Pow10(n - 1)

\* the nine bits of d < 512, and the integer a bit sequence spells
Bits9(d) == [j \in 1..9 |-> (d \div Pow2(9 - j)) % 2]
RECURSIVE BitsToInt(_)
BitsToInt(bits) ==
  IF Len(bits) = 0 THEN 0
  ELSE IF Len(bits) = 1 THEN bits[1]
  ELSE LET h == Len(bits) \div 2 IN
       BitsToInt(SubSeq(bits, 1, h)) * Pow2(Len(bits) - h) + BitsToInt(SubSeq(bits, h + 1, Len(bits)))

\* bits without its leading zeros
Normal(bits) ==
  IF \A i \in 1..Len(bits) : bits[i] = 0 THEN <<>>
  ELSE SubSeq(bits, CHOOSE i \in 1..Len(bits) : bits[i] = 1 /\ \A j \in 1..(i - 1) : bits[j] = 0,
              Len(bits))

\* bits + 1, one bit longer when every bit was 1
Inc(bits) ==
  IF \A i \in 1..Len(bits) : bits[i] = 1 THEN <<1>> \o [i \in 1..Len(bits) |-> 0]
  ELSE LET z == CHOOSE i \in 1..Len(bits) : bits[i] = 0 /\ \A j \in (i + 1)..Len(bits) : bits[j] = 1 IN
       [i \in 1..Len(bits) |-> IF i < z THEN bits[i] ELSE IF i = z THEN 1 ELSE 0]

\* round to nearest, ties to even: the double nearest to the exact value
\* bits (any length, bits[1] = 1) with exponent e
RoundToDouble(bits, e) ==
  IF Len(bits) <= Precision
    THEN [m |-> bits \o [i \in 1..(Precision - Len(bits)) |-> 0], e |-> e]
    ELSE LET head == SubSeq(bits, 1, Precision)
             sticky == \E j \in (Precision + 2)..Len(bits) : bits[j] = 1
             up == bits[Precision + 1] = 1 /\ (sticky \/ head[Precision] = 1)
             h == IF up THEN Inc(head) ELSE head IN
         IF Len(h) > Precision THEN [m |-> SubSeq(h, 1, Precision), e |-> e + 1]
                               ELSE [m |-> h, e |-> e]

\* long division: the next 9 * n bits of r / den (r < den), and what is left
RECURSIVE DivBits(_, _, _)
DivBits(r, den, n) ==
  IF n = 0 THEN <<>>
  ELSE Bits9((r * 512) \div den) \o DivBits((r * 512) % den, den, n - 1)
RECURSIVE DivRem(_, _, _)
DivRem(r, den, n) == IF n = 0 THEN r ELSE DivRem((r * 512) % den, den, n - 1)

\* the exponent of a / b: the shifts that bring the quotient into [1, 2)
RECURSIVE ShiftsDown(_, _)
ShiftsDown(a, b) == IF a < 2 * b THEN 0 ELSE 1 + ShiftsDown(a, 2 * b)
RECURSIVE ShiftsUp(_, _)
ShiftsUp(a, b) == IF a >= b THEN 0 ELSE 1 + ShiftsUp(2 * a, b)

\* the double nearest to a / b, for integers a, b > 0: what a decimal
\* literal a / 10^k denotes and what the division of two integers returns
Quotient(a, b) ==
  LET e == IF a >= b THEN ShiftsDown(a, b) ELSE 0 - ShiftsUp(a, b)
      num == IF e < 0 THEN a * Pow2(0 - e) ELSE a
      den == IF e > 0 THEN b * Pow2(e) ELSE b
      rest == DivRem(num - den, den, 6) IN
  RoundToDouble(<<1>> \o DivBits(num - den, den, 6) \o (IF rest # 0 THEN <<1>> ELSE <<>>), e)

\* the exact product of a double and a small integer k > 0 (not rounded):
\* the significand in digits of nine bits, the least significant first
RECURSIVE TimesDigits(_, _, _)
TimesDigits(lsdFirst, k, carry) ==
  IF lsdFirst = <<>>
    THEN IF carry = 0 THEN <<>> ELSE Bits9(carry % 512) \o <<>>
    ELSE LET t == Head(lsdFirst) * k + carry IN
         TimesDigits(Tail(lsdFirst), k, t \div 512) \o Bits9(t % 512)
Times(x, k) ==
  LET padded == [i \in 1..(54 - Len(x.m)) |-> 0] \o x.m
      digits == [i \in 1..6 |-> BitsToInt(SubSeq(padded, 54 - 9 * i + 1, 54 - 9 * i + 9))]
      p == Normal(TimesDigits(digits, k, 0)) IN
  [m |-> p, e |-> x.e + Len(p) - Len(x.m)]

\* x * k as the multiplication returns it
Product(x, k) == LET p == Times(x, k) IN RoundToDouble(p.m, p.e)

\* the integer nearest to the positive value x; a value exactly halfway
\* between two integers goes to the larger when halfUp, else to the smaller
NearestInt(x, halfUp) ==
  LET bit(i) == IF i >= 1 /\ i <= Len(x.m) THEN x.m[i] ELSE 0
      whole == IF x.e < 0 THEN 0 ELSE BitsToInt([i \in 1..(x.e + 1) |-> bit(i)])
      half == bit(x.e + 2) = 1
      more == \E j \in 1..Len(x.m) : j > x.e + 2 /\ x.m[j] = 1 IN
  IF half /\ (more \/ halfUp) THEN whole + 1 ELSE whole

\* Math.round(sign * x): the nearest integer, halves toward +Infinity
MathRound(neg, x) == IF neg THEN 0 - NearestInt(x, FALSE) ELSE NearestInt(x, TRUE)

\* =================================================== the amounts alone
\* amountStrToCents, centsToAmountStr, pickCurrency and the dashboard's
\* progress percentage, each applied to an input drawn at the start.
\* A string is the sequence of its characters.

\* the longest integer part and fraction of the amounts drawn
MaxIntDigits == 2
MaxFracDigits == 3

DigitChars == <<"0", "1", "2", "3", "4", "5", "6", "7", "8", "9">>
IsDigit(c) == \E d \in 1..10 : DigitChars[d] = c
DigitOf(c) == (CHOOSE d \in 1..10 : DigitChars[d] = c) - 1
RECURSIVE DecimalValue(_)
DecimalValue(s) ==
  IF s = <<>> THEN 0 ELSE DecimalValue(SubSeq(s, 1, Len(s) - 1)) * 10 + DigitOf(s[Len(s)])
RECURSIVE Decimal(_)
Decimal(n) ==
  IF n < 10 THEN <<DigitChars[n + 1]>> ELSE Decimal(n \div 10) \o <<DigitChars[(n % 10) + 1]>>

\* JavaScript values: null, undefined, booleans and strings
JsNull == [t |-> "null"]
JsUndefined == [t |-> "undefined"]
JsBool(b) == [t |-> "boolean", b |-> b]
JsString(s) == [t |-> "string", s |-> s]

\* v || "0"
OrZero(v) ==
  IF v.t \in {"null", "undefined"} \/ (v.t = "boolean" /\ ~v.b) \/ (v.t = "string" /\ v.s = <<>>)
    THEN JsString(<<"0">>) ELSE v

\* String(v)
String(v) ==
  CASE v.t = "string" -> v.s
    [] v.t = "boolean" -> IF v.b THEN <<"t", "r", "u", "e">> ELSE <<"f", "a", "l", "s", "e">>
    [] v.t = "null" -> <<"n", "u", "l", "l">>
    [] OTHER -> <<"u", "n", "d", "e", "f", "i", "n", "e", "d">>

\* s.replace(",", "."): the first comma only
replace(s) ==
  IF \E i \in 1..Len(s) : s[i] = ","
    THEN LET first == CHOOSE i \in 1..Len(s) : s[i] = "," /\ \A j \in 1..(i - 1) : s[j] # "," IN
         [s EXCEPT ![first] = "."]
    ELSE s

\* the numbers: NaN, a zero, or a sign and a positive double
NaN == [kind |-> "nan"]
Zero == [kind |-> "zero"]
Finite(neg, x) == [kind |-> "finite", neg |-> neg, x |-> x]

\* s without the white space at its ends
Trim(s) ==
  LET inked == {i \in 1..Len(s) : s[i] # " "} IN
  IF inked = {} THEN <<>>
  ELSE SubSeq(s, CHOOSE i \in inked : \A j \in inked : i <= j,
                 CHOOSE i \in inked : \A j \in inked : i >= j)

\* StrUnsignedDecimalLiteral without an exponent: digits with at most one
\* point, and at least one digit
IsDecimalLiteral(s) ==
  /\ \A i \in 1..Len(s) : IsDigit(s[i]) \/ s[i] = "."
  /\ Cardinality({i \in 1..Len(s) : s[i] = "."}) <= 1
  /\ \E i \in 1..Len(s) : IsDigit(s[i])

\* the number a decimal literal denotes: its digits over a power of ten,
\* rounded to the nearest double
LiteralValue(neg, s) ==
  LET points == {i \in 1..Len(s) : s[i] = "."}
      scale == IF points = {} THEN 0 ELSE Len(s) - (CHOOSE i \in points : TRUE)
      digits == DecimalValue(SelectSeq(s, IsDigit)) IN
  IF digits = 0 THEN Zero ELSE Finite(neg, Quotient(digits, Pow10(scale)))

\* parseFloat(s): the number of the longest prefix that is a literal
parseFloat(s) ==
  LET t == Trim(s)
      neg == t # <<>> /\ t[1] = "-"
      body == IF t # <<>> /\ t[1] \in {"+", "-"} THEN Tail(t) ELSE t
      ends == {i \in 1..Len(body) : IsDecimalLiteral(SubSeq(body, 1, i))} IN
  IF ends = {} THEN NaN
  ELSE LiteralValue(neg, SubSeq(body, 1, CHOOSE i \in ends : \A j \in ends : i >= j))

\* Number(s) of a string: white space trimmed, the empty string is 0, a
\* signed decimal literal is its value, anything else is NaN.  (Exponents,
\* hexadecimal literals and Infinity need letters the strings drawn here
\* do not have.)
Number(s) ==
  LET t == Trim(s)
      neg == t # <<>> /\ t[1] = "-"
      body == IF t # <<>> /\ t[1] \in {"+", "-"} THEN Tail(t) ELSE t IN
  IF t = <<>> THEN Zero
  ELSE IF ~IsDecimalLiteral(body) THEN NaN
  ELSE LiteralValue(neg, body)

isFinite(n) == n.kind # "nan"

\* Math.round(n * 100); -0 and 0 are both 0
amountStrToCents(amountStr) ==
  LET n == Number(replace(String(OrZero(amountStr)))) IN
  IF ~isFinite(n) THEN 0
  ELSE IF n.kind = "zero" THEN 0
  ELSE MathRound(n.neg, Product(n.x, 100))

\* x.toFixed(2): the integer n for which n / 100 - x is closest to zero, the
\* larger when there are two, written with its last two digits after a point
toFixed(n) ==
  IF n.kind = "zero" THEN <<"0", ".", "0", "0">>
  ELSE LET hundredths == Decimal(NearestInt(Times(n.x, 100), TRUE))
           padded == [i \in 1..(3 - Len(hundredths)) |-> "0"] \o hundredths IN
       (IF n.neg THEN <<"-">> ELSE <<>>)
         \o SubSeq(padded, 1, Len(padded) - 2) \o <<".">>
         \o SubSeq(padded, Len(padded) - 1, Len(padded))

\* (Number(cents || 0) / 100).toFixed(2), cents an integer
centsToAmountStr(cents) ==
  toFixed(IF cents = 0 THEN Zero
          ELSE Finite(cents < 0, Quotient(IF cents < 0 THEN 0 - cents ELSE cents, 100)))

\* the currency codes, and an object as the sequence of its own keys in
\* the order Object.keys lists them (the order they were added: no code is
\* an integer index); a key of a parsed JSON object never holds undefined
Codes == {"EUR", "USD", "XAF"}
JsObject(keys) == [t |-> "object", keys |-> keys]
isObject(m) == m.t = "object"

\* the first loop: some map is an object with an EUR entry
RECURSIVE hasEUR(_)
hasEUR(maps) ==
  IF maps = <<>> THEN FALSE
  ELSE IF isObject(Head(maps)) /\ (\E i \in 1..Len(Head(maps).keys) : Head(maps).keys[i] = "EUR")
    THEN TRUE
  ELSE hasEUR(Tail(maps))

\* the second loop: the first key of the first object that has keys
RECURSIVE firstKey(_)
firstKey(maps) ==
  IF maps = <<>> THEN "EUR"
  ELSE IF isObject(Head(maps)) /\ Len(Head(maps).keys) > 0 THEN Head(maps).keys[1]
  ELSE firstKey(Tail(maps))

\* the second loop alone
pickCurrencyFirstKey(maps) == firstKey(maps)

pickCurrency(maps) == IF hasEUR(maps) THEN "EUR" ELSE firstKey(maps)

\* renderDashboard's progressPct, for integer cents
progressPct(incomeCents, expensesCents) ==
  IF incomeCents > 0
    THEN LET ratio == IF expensesCents = 0 THEN Zero
                      ELSE Finite(expensesCents < 0,
                                  Quotient(IF expensesCents < 0 THEN 0 - expensesCents ELSE expensesCents,
                                           incomeCents))
             rounded == IF ratio.kind = "zero" THEN 0 ELSE MathRound(ratio.neg, Product(ratio.x, 100))
             capped == IF rounded > 100 THEN 100 ELSE rounded IN
         IF capped < 0 THEN 0 ELSE capped
    ELSE 0

\* the inputs: amounts as a sign, an integer part, a separator and a
\* fraction, each possibly missing, and strings that are no amounts
InputDigits == {"0", "1", "2", "5"}
DigitStrings(n) == UNION {[1..len -> InputDigits] : len \in 0..n}
AmountStrings ==
  {sign \o whole \o sep \o frac :
     sign \in {<<>>, <<"-">>}, whole \in DigitStrings(MaxIntDigits),
     sep \in {<<".">>, <<",">>}, frac \in DigitStrings(MaxFracDigits)}
  \cup {sign \o whole : sign \in {<<>>, <<"-">>}, whole \in DigitStrings(MaxIntDigits)}
OddStrings ==
  { <<" ">>, <<"a">>, <<"1", "a">>, <<"a", "1">>, <<"+">>, <<"+", "1">>, <<"-", "-", "1">>,
    <<"1", "-">>, <<" ", "1", ".", "5", " ">>, <<"1", " ", "5">>,
    <<"1", ",", "2", ",", "5">>, <<"1", ".", "2", ".", "5">>, <<"1", ".", "2", ",", "5">>,
    <<"1", ",", "2", ".", "5">>, <<"1", ".", "5", "a">>, <<"-", "a">> }
AmountInputs ==
  {JsNull, JsUndefined, JsBool(TRUE), JsBool(FALSE)}
    \cup {JsString(s) : s \in AmountStrings \cup OddStrings}

\* the lists of maps: at most MaxMaps elements, each null, a string or an
\* object of at most MaxKeys keys
MaxMaps == 3
MaxKeys == 2
KeyLists == {ks \in UNION {[1..len -> Codes] : len \in 0..MaxKeys} :
               \A i, j \in 1..Len(ks) : ks[i] = ks[j] => i = j}
MapValues == {JsNull, JsString(<<"E", "U", "R">>)} \cup {JsObject(ks) : ks \in KeyLists}
MapLists == UNION {[1..len -> MapValues] : len \in 0..MaxMaps}

\* the cents of the month: incomes from -1, expenses from MinExpenses
MaxIncome == 40
MaxExpenses == 45
MinExpenses == 0 - 3

Drawn ==
  {[f |-> "amountStrToCents", amountStr |-> v, maps |-> <<>>, incomeCents |-> 0, expensesCents |-> 0] :
     v \in AmountInputs}
    \cup {[f |-> "pickCurrency", amountStr |-> JsNull, maps |-> v, incomeCents |-> 0, expensesCents |-> 0] :
            v \in MapLists}
    \cup {[f |-> "progressPct", amountStr |-> JsNull, maps |-> <<>>, incomeCents |-> i, expensesCents |-> e] :
            i \in (0 - 1)..MaxIncome, e \in MinExpenses..MaxExpenses}

\* calc.in: the input drawn; calc.f: the function applied last; calc.cents
\* and calc.out: what amountStrToCents and the other functions returned
InitCalc ==
  /\ AppAtRest /\ req = NoCall
  /\ storeOk = TRUE /\ txFate = "complete" /\ cache = [k \in Keys |-> NULL]
  /\ \E d \in Drawn : calc = [f |-> "none", in |-> d, cents |-> 0, out |-> <<>>]

AmountToCents ==
  /\ calc.f = "none" /\ calc.in.f = "amountStrToCents"
  /\ calc' = [calc EXCEPT !.f = "amountStrToCents", !.cents = amountStrToCents(calc.in.amountStr)]
  /\ UNCHANGED <<app, cache, storeOk, txFate, req>>

CentsToAmount ==
  /\ calc.f = "amountStrToCents"
  /\ calc' = [calc EXCEPT !.f = "centsToAmountStr", !.out = centsToAmountStr(calc.cents)]
  /\ UNCHANGED <<app, cache, storeOk, txFate, req>>

PickCurrency ==
  /\ calc.f = "none" /\ calc.in.f = "pickCurrency"
  /\ calc' = [calc EXCEPT !.f = "pickCurrency", !.out = pickCurrency(calc.in.maps)]
  /\ UNCHANGED <<app, cache, storeOk, txFate, req>>

RenderProgress ==
  /\ calc.f = "none" /\ calc.in.f = "progressPct"
  /\ calc' = [calc EXCEPT !.f = "progressPct", !.out = progressPct(calc.in.incomeCents, calc.in.expensesCents)]
  /\ UNCHANGED <<app, cache, storeOk, txFate, req>>

NextCalc ==
  \/ AmountToCents
  \/ CentsToAmount
  \/ PickCurrency
  \/ RenderProgress

SpecCalc == InitCalc /\ [][NextCalc]_vars

\* ============================================= the dashboard's cards alone
\* renderDashboard's figures, computed from a payload drawn at the start.
\* An object with values is its keys in order and the value of each.

JsMap(keys, vals) == [t |-> "object", keys |-> keys, vals |-> vals]

\* m[k]: the value of an own key, else undefined
Get(m, k) ==
  IF \E i \in 1..Len(m.keys) : m.keys[i] = k
    THEN m.vals[CHOOSE i \in 1..Len(m.keys) : m.keys[i] = k]
    ELSE JsUndefined

\* a || b for values that are objects or undefined
OrElse(a, b) == IF a.t = "undefined" THEN b ELSE a

\* Get with the lookup made at the map's first key
GetFirst(m, k) == IF Len(m.keys) > 0 THEN m.vals[1] ELSE JsUndefined

\* bankMap?.[currency], incomeMap?.[currency], expensesMap?.[currency]
valueAt(m, currency) == Get(m, currency)

\* the chip of the profit card with a zero profit shown as negative
beneficioChipStrict(beneficioCents) ==
  IF beneficioCents > 0 THEN [class |-> "chip chip-pos", sign |-> "+"]
  ELSE [class |-> "chip chip-neg", sign |-> ""]

\* beneficioChipClass and beneficioSign
beneficioChip(beneficioCents) ==
  IF beneficioCents >= 0 THEN [class |-> "chip chip-pos", sign |-> "+"]
  ELSE [class |-> "chip chip-neg", sign |-> ""]

\* formatMoney(amountStr, currency): Intl.NumberFormat writes the amount of
\* the string in the notation of the currency; kept as the pair
formatMoney(amountStr, currency) == [amount |-> amountStr, currency |-> currency]

\* renderDashboard(root, data), lines 446-481: the three maps, the currency,
\* the cents read at it, the profit and the texts of the cards
dashboardCards(data) ==
  LET report == data.report
      bankMap == OrElse(IF report.t = "null" THEN JsUndefined ELSE report.bankBalanceByCurrency,
                        OrElse(data.bootstrapBank, JsMap(<<>>, <<>>)))
      incomeMap == OrElse(IF report.t = "null" THEN JsUndefined ELSE report.incomeNetByCurrency,
                          JsMap(<<>>, <<>>))
      expensesMap == OrElse(IF report.t = "null" THEN JsUndefined ELSE report.expensesByCurrency,
                            JsMap(<<>>, <<>>))
      currency == pickCurrency(<<bankMap, incomeMap, expensesMap>>)
      bank == valueAt(bankMap, currency)
      bankCents == IF bank.t = "string" THEN amountStrToCents(bank)
                   ELSE IF bank.t = "number" THEN bank.n ELSE 0
      incomeCents == amountStrToCents(OrZero(valueAt(incomeMap, currency)))
      expensesCents == amountStrToCents(OrZero(valueAt(expensesMap, currency)))
      beneficioCents == incomeCents - expensesCents IN
  [bankMap |-> bankMap, incomeMap |-> incomeMap, expensesMap |-> expensesMap,
   currency |-> currency, bankCents |-> bankCents, incomeCents |-> incomeCents,
   expensesCents |-> expensesCents, beneficioCents |-> beneficioCents,
   progressPct |-> progressPct(incomeCents, expensesCents),
   banco |-> formatMoney(centsToAmountStr(bankCents), currency),
   beneficio |-> formatMoney(centsToAmountStr(beneficioCents), currency),
   chip |-> beneficioChip(beneficioCents),
   gastos |-> formatMoney(centsToAmountStr(expensesCents), currency)]

\* the payloads drawn.  The amount a map holds for a code is fixed per map
\* and code, so that a figure tells which entry it was read from; the bank
\* balances come as decimal strings or as integer cents.
CardCodes == {"EUR", "USD"}
CardKeys == {ks \in UNION {[1..len -> CardCodes] : len \in 0..2} :
               \A i, j \in 1..Len(ks) : ks[i] = ks[j] => i = j}
BankAmount(code) == IF code = "EUR" THEN <<"1", "2", ".", "5", "0">> ELSE <<"7", ".", "0", "0">>
BankCents(code) == IF code = "EUR" THEN 1250 ELSE 700
IncomeAmount(code) ==
  IF code = "EUR" THEN <<"1", "5", "0", "0", ".", "0", "0">> ELSE <<"4", ".", "0", "0">>
ExpensesAmount(code) ==
  IF code = "EUR" THEN <<"4", "0", "0", ".", "0", "0">> ELSE <<"9", ".", "5", "0">>
BankMaps ==
  {JsMap(ks, [i \in 1..Len(ks) |-> JsString(BankAmount(ks[i]))]) : ks \in CardKeys}
    \cup {JsMap(ks, [i \in 1..Len(ks) |-> JsNumber(BankCents(ks[i]))]) : ks \in CardKeys}
IncomeMaps == {JsMap(ks, [i \in 1..Len(ks) |-> JsString(IncomeAmount(ks[i]))]) : ks \in CardKeys}
ExpensesMaps == {JsMap(ks, [i \in 1..Len(ks) |-> JsString(ExpensesAmount(ks[i]))]) : ks \in CardKeys}
Reports ==
  {JsNull}
    \cup {[t |-> "object", bankBalanceByCurrency |-> b, incomeNetByCurrency |-> i,
           expensesByCurrency |-> e] :
            b \in BankMaps \cup {JsUndefined}, i \in IncomeMaps \cup {JsUndefined},
            e \in ExpensesMaps \cup {JsUndefined}}
CardData ==
  {[report |-> r, bootstrapBank |-> b] :
     r \in Reports,
     b \in {JsUndefined, JsMap(<<"USD">>, <<JsNumber(BankCents("USD"))>>),
            JsMap(<<"EUR">>, <<JsString(BankAmount("EUR"))>>)}}

\* x / k as the division returns it, for a double x of few significant
\* bits (an integer or a short binary fraction) and an integer k > 0
Over(x, k) ==
  LET ones == {i \in 1..Len(x.m) : x.m[i] = 1}
      last == CHOOSE i \in ones : \A j \in ones : i >= j
      a == BitsToInt(SubSeq(x.m, 1, last))
      shift == x.e - (last - 1) IN
  IF shift >= 0 THEN Quotient(a * Pow2(shift), k) ELSE Quotient(a, k * Pow2(0 - shift))

\* Number(cents) of a number or a string
NumberOf(cents) ==
  IF cents.t = "number"
    THEN IF cents.n = 0 THEN Zero
         ELSE Finite(cents.n < 0, Quotient(IF cents.n < 0 THEN 0 - cents.n ELSE cents.n, 1))
    ELSE Number(String(cents))

\* formatCentsNumber(cents): (Number(cents) / 100).toFixed(2)
formatCentsNumber(cents) ==
  LET n == NumberOf(cents) IN
  IF n.kind = "nan" THEN <<"N", "a", "N">>
  ELSE IF n.kind = "zero" THEN toFixed(Zero)
  ELSE toFixed(Finite(n.neg, Over(n.x, 100)))

\* renderBankBalance(root, balanceByCurrency): one tag per entry, in the
\* order of Object.entries; a muted "0" when there is none
renderBankBalance(balanceByCurrency) ==
  LET m == OrElse(balanceByCurrency, JsMap(<<>>, <<>>)) IN
  [tags |-> [i \in 1..Len(m.keys) |->
               [amount |-> formatCentsNumber(m.vals[i]), currency |-> m.keys[i]]],
   muted |-> Len(m.keys) = 0]

\* the balances of the bank summary: the map the dashboard reads
BankSummary(data) == dashboardCards(data).bankMap

\* calc.in: the payload drawn; calc.out: the cards rendered from it
InitCards ==
  /\ AppAtRest /\ req = NoCall
  /\ storeOk = TRUE /\ txFate = "complete" /\ cache = [k \in Keys |-> NULL]
  /\ \E d \in CardData : calc = [f |-> "none", in |-> d, out |-> <<>>]

RenderCards ==
  /\ calc.f = "none"
  /\ calc' = [calc EXCEPT !.f = "renderDashboard", !.out = dashboardCards(calc.in)]
  /\ UNCHANGED <<app, cache, storeOk, txFate, req>>

\* the bank view renders the balances of the same payload
RenderBankBalance ==
  /\ calc.f = "none"
  /\ calc' = [calc EXCEPT !.f = "renderBankBalance",
                          !.out = renderBankBalance(BankSummary(calc.in))]
  /\ UNCHANGED <<app, cache, storeOk, txFate, req>>

NextCards == RenderCards \/ RenderBankBalance

SpecCards == InitCards /\ [][NextCards]_vars

\* ======================================================= the loads alone
\* The initial load of every view with no user action.  The store may hold
\* entries that lack the field their view reads, and a 2xx answer may carry
\* a body that res.json() cannot parse, for which fetchJson resolves to null.

\* an entry that exists and lacks the field its view reads
NoField(k) ==
  IF k = DashKey(Now.year, Now.month)
    THEN Payload("/api/bootstrap", -1) \o Payload(ReportUrl(Now.year, Now.month), 0)
    ELSE Payload(UrlOf(k), -1)

\* the store at the start: per key of the page no entry, an entry of an
\* earlier session, or an entry without the field
InitCacheAny(pg, ok) ==
  {[k \in Keys |-> IF k \in M THEN NoField(k) ELSE c[k]] :
     c \in InitCache(pg, ok),
     M \in SUBSET (IF ok THEN PageKeys(pg) \ {"bootstrap"} ELSE {})}

InitLoads ==
  /\ page \in Pages
  /\ session \in SessionsOf(page)
  /\ CURRENT_USER = NoUser
  /\ ui = NoUi
  /\ storeOk \in BOOLEAN
  /\ txFate \in IF storeOk THEN TxFates ELSE {"complete"}
  /\ server = [x \in Resources |-> 1]
  /\ cache \in InitCacheAny(page, Readable)
  /\ view = InitView(page)
  /\ status = [e \in StatusEls |-> ""]
  /\ closeBtn = "none"
  /\ alerted = ""
  /\ submits = 0
  /\ proc = InitProc(page, cache, Readable)
  /\ req = NoCall
  /\ calc = NoCalc

\* fetchJson of a view's data resolves to null: status 2xx, and
\* res.json().catch(() => null) gave null
NullBody ==
  /\ page # "admin"
  /\ proc["load"].ra.s = "sent" /\ proc["load"].ra.method = "GET"
  /\ proc["load"].ra.url # "/api/me"
  /\ proc' = [proc EXCEPT !["load"].ra = [@ EXCEPT !.s = "ok", !.d = NULL]]
  /\ UNCHANGED <<txFate, req, calc, page, session, CURRENT_USER, ui, server, cache, storeOk, view, status, closeBtn, alerted, submits>>

\* e.message of the TypeError thrown by reading a property of null
TypeErrorMessage == "TypeError: Cannot read properties of null"

\* the load holds a response whose fields can be read
Renders == proc["load"].fresh # NULL

\* Promise.all resolved with bootstrap null: fresh = {bootstrap: null, report};
\* cacheSet("bootstrap", null), after which cacheGet("bootstrap") gives null
DashJoinedNull ==
  /\ page = "dashboard" /\ proc["load"].pc = "join"
  /\ proc["load"].ra.s = "ok" /\ proc["load"].ra.d = NULL /\ proc["load"].rb.s = "ok"
  /\ cache' = cacheSet(cache, "bootstrap", NULL)
  /\ proc' = [proc EXCEPT !["load"] =
                [@ EXCEPT !.pc = AfterCacheSet("set1"),
                          !.fresh = Payload("/api/bootstrap", -1) \o proc["load"].rb.d,
                          !.ev = Log("load", <<"cacheSet", "bootstrap">>)]]
  /\ UNCHANGED <<txFate, req, calc, page, session, CURRENT_USER, ui, server, storeOk, view, status, closeBtn, alerted, submits>>

\* after `await cacheSet(key, null)`: fresh.expenses (fresh.debts,
\* fresh.balanceByCurrency) throws; catch (e) { if (!cached) render(root, [alertNode(e.message)]) }
SwrThrows(pg, url, root) ==
  /\ page = pg /\ proc["load"].pc = "set" /\ ~Renders
  /\ IF proc["load"].cached = NULL
       THEN /\ view' = render(view, {root}, alertNode(TypeErrorMessage))
            /\ status' = renderStatus(status, {root})
            /\ proc' = [Detach(proc, {root}) EXCEPT !["load"] =
                          [@ EXCEPT !.pc = "failed", !.ev = Log("load", <<"alert", url>>)]]
       ELSE /\ proc' = [proc EXCEPT !["load"].pc = "failed"]
            /\ UNCHANGED <<view, status>>
  /\ UNCHANGED <<txFate, req, calc, page, session, CURRENT_USER, ui, server, cache, storeOk, closeBtn, alerted, submits>>

ExpThrows == SwrThrows("gastos", "/api/expenses", "expenses")
BankThrows == SwrThrows("banco", "/api/bank/summary", "balance")
DebtThrows == SwrThrows("deudas", "/api/debts", "debts")

\* companies.companies or entries.entries throws on null: the catch of
\* initCompaniesAndWorkEntries
IngThrows ==
  /\ page = "ingresos" /\ proc["load"].pc \in {"set", "set2"} /\ ~Renders
  /\ LET shown == (IF proc["load"].cached = NULL THEN {"companies"} ELSE {})
                  \cup (IF proc["load"].cached2 = NULL THEN {"entries"} ELSE {}) IN
     /\ view' = render(view, shown, alertNode(TypeErrorMessage))
     /\ status' = renderStatus(status, shown)
     /\ proc' = [Detach(proc, shown) EXCEPT !["load"] =
                   [@ EXCEPT !.pc = "failed",
                             !.ev = proc["load"].ev
                                    \o (IF proc["load"].cached = NULL
                                          THEN <<<<"alert", "/api/companies">>>> ELSE <<>>)
                                    \o (IF proc["load"].cached2 = NULL
                                          THEN <<<<"alert", "/api/work-entries">>>> ELSE <<>>)]]
  /\ UNCHANGED <<txFate, req, calc, page, session, CURRENT_USER, ui, server, cache, storeOk, closeBtn, alerted, submits>>

\* renderMonthlyReport(content, null) throws at report.incomeNetByCurrency:
\* the catch of loadReport
RepThrows ==
  /\ page = "reportes" /\ proc["load"].pc = "set" /\ ~Renders
  /\ status' = [status EXCEPT !["report"] = TypeErrorMessage]
  /\ IF proc["load"].cached = NULL
       THEN /\ view' = render(view, {"content"}, alertNode(TypeErrorMessage))
            /\ proc' = [proc EXCEPT !["load"] =
                          [@ EXCEPT !.pc = "failed",
                                    !.ev = proc["load"].ev
                                           \o <<<<"status", "report">>, <<"alert", proc["load"].ra.url>>>>]]
       ELSE /\ proc' = [proc EXCEPT !["load"] =
                          [@ EXCEPT !.pc = "failed", !.ev = Log("load", <<"status", "report">>)]]
            /\ UNCHANGED view
  /\ UNCHANGED <<txFate, req, calc, page, session, CURRENT_USER, ui, server, cache, storeOk, closeBtn, alerted, submits>>

NextLoads ==
  \/ Network \/ NullBody \/ MeDone
  \/ DashStale \/ (proc["load"].ra.d # NULL /\ DashJoined) \/ DashJoinedNull
  \/ DashSet1 \/ DashFresh \/ DashFailed
  \/ IngStaleCompanies \/ IngStaleEntries \/ IngCompaniesFetched
  \/ IngEntriesFetched \/ IngFailed \/ IngThrows
  \/ ExpStale \/ ExpFetched \/ ExpFailed \/ ExpThrows
  \/ BankStale \/ BankFetched \/ BankFailed \/ BankThrows
  \/ DebtStale \/ DebtFetched \/ DebtFailed \/ DebtThrows
  \/ RepMe \/ RepStale("load") \/ RepFetched("load") \/ RepFailed("load") \/ RepThrows
  \/ (Renders /\ (\/ IngCompaniesFresh \/ IngEntriesFresh \/ ExpFresh
                  \/ BankFresh \/ DebtFresh \/ RepFresh("load")))
  \/ AdminMe \/ AdminUsers("load") \/ AdminAudit("load") \/ AdminRejected("load")

SpecLoads == InitLoads /\ [][NextLoads]_vars

\* ================================================================ claims
\* vocabulary of the properties
AllSettled == \A p \in Procs : Settled(p)

\* the processes that run a view's load: the page's init function and, on
\* the reports page, the form's loadReport
IsLoad(p) == p = "load" \/ (page = "reportes" /\ p = "act")

\* the step in which a view load handles its rejected fetch
LoadFails(p) ==
  /\ page # "admin" /\ IsLoad(p)
  /\ proc[p].pc # "failed" /\ proc'[p].pc = "failed"

\* the roots a load drew from the cache, and the roots of the views whose
\* cache read gave null (the bank view puts its alert in the balance root)
StaleRoots(p) ==
  CASE page = "dashboard" -> IF HasField(proc[p].cached) THEN {"dashboard"} ELSE {}
    [] page = "ingresos" -> (IF HasField(proc[p].cached) THEN {"companies"} ELSE {})
                            \cup (IF HasField(proc[p].cached2) THEN {"entries"} ELSE {})
    [] page = "gastos" -> IF HasField(proc[p].cached) THEN {"expenses"} ELSE {}
    [] page = "banco" -> IF HasField(proc[p].cached) THEN {"balance", "movements"} ELSE {}
    [] page = "deudas" -> IF HasField(proc[p].cached) THEN {"debts"} ELSE {}
    [] page = "reportes" -> IF HasField(proc[p].cached) THEN {"content"} ELSE {}
    [] OTHER -> {}
NullRoots(p) ==
  CASE page = "dashboard" -> IF proc[p].cached = NULL THEN {"dashboard"} ELSE {}
    [] page = "ingresos" -> (IF proc[p].cached = NULL THEN {"companies"} ELSE {})
                            \cup (IF proc[p].cached2 = NULL THEN {"entries"} ELSE {})
    [] page = "gastos" -> IF proc[p].cached = NULL THEN {"expenses"} ELSE {}
    [] page = "banco" -> IF proc[p].cached = NULL THEN {"balance"} ELSE {}
    [] page = "deudas" -> IF proc[p].cached = NULL THEN {"debts"} ELSE {}
    [] page = "reportes" -> IF proc[p].cached = NULL THEN {"content"} ELSE {}
    [] OTHER -> {}

\* the messages of a process's rejected requests
Failures(p) == {Message(proc[p][slot]) : slot \in {x \in {"ra", "rb"} : proc[p][x].s = "fail"}}

\* what the server would answer now for the resource(s) kept under a key
Current(k) ==
  IF k = DashKey(Now.year, Now.month)
    THEN Payload("/api/bootstrap", server["/api/bootstrap"])
         \o Payload(ReportUrl(Now.year, Now.month), server[ReportUrl(Now.year, Now.month)])
    ELSE Payload(UrlOf(k), server[UrlOf(k)])

\* the cache keys a mutating handler refreshes after its write
Refreshed(kind) ==
  CASE kind = "close" -> {"bootstrap", DashKey(Now.year, Now.month), "bankSummary"}
    [] kind = "company" -> {"companies", "workEntries"}
    [] kind = "entry" -> {"workEntries"}
    [] kind = "expense" -> {"expenses", "bankSummary"}
    [] kind = "monthClose" -> {"bankSummary"}
    [] kind = "debt" -> {"debts"}
    [] kind = "payment" -> {"debts", "bankSummary"}
    [] OTHER -> {}

CreateKinds == {"company", "entry", "expense", "debt", "payment"}

\* the status element next to a create form
StatusOf(kind) == IF kind = "payment" THEN "paymentsBox" ELSE kind

\* the events a step added to a process's log
NewEvents(p) == SubSeq(proc'[p].ev, Len(proc[p].ev) + 1, Len(proc'[p].ev))
Has(ev, e) == \E i \in 1..Len(ev) : ev[i] = e
HasKind(ev, k) == \E i \in 1..Len(ev) : ev[i][1] = k

\* the fetches of a view's data: every GET but the one for the current user
IsViewFetch(e) == e[1] = "fetch" /\ e \in {Fetch("GET", u) : u \in Resources \ {"/api/me"}}

\* the view a fresh render belongs to: its roots and its cache key
FreshRoots(x) ==
  CASE x = "dashboard" -> {"dashboard"}
    [] x = "/api/companies" -> {"companies"}
    [] x = "/api/work-entries" -> {"entries"}
    [] x = "/api/expenses" -> {"expenses"}
    [] x = "/api/bank/summary" -> {"balance", "movements"}
    [] x = "/api/debts" -> {"debts"}
    [] OTHER -> {"content"}
FreshKey(x) ==
  CASE x = "dashboard" -> DashKey(Now.year, Now.month)
    [] x = "/api/companies" -> "companies"
    [] x = "/api/work-entries" -> "workEntries"
    [] x = "/api/expenses" -> "expenses"
    [] x = "/api/bank/summary" -> "bankSummary"
    [] x = "/api/debts" -> "debts"
    [] OTHER -> CHOOSE k \in Keys : \E q \in Periods :
                  x = ReportUrl(q.year, q.month) /\ k = ReportKey(q.year, q.month)

\* ------------------------------------------------------------------- C1
\* C1 (as stated): once a mutating handler has completed (its write and its
\* re-fetches succeeded) and nothing is in flight, every cache entry the
\* handler refreshes equals the server's current state of that list.
C1_CacheMatchesServer ==
  (AllSettled /\ Writable /\ proc["act"].pc = "done")
    => \A k \in Refreshed(proc["act"].kind) : cache[k] = Current(k)

\* ------------------------------------------------------------------- C2
\* C2 (as stated): in the step in which a view load handles its rejected
\* fetch after a stale render, the stale render stays as it is and no error
\* text appears: every root drawn from the cache keeps its content and the
\* status elements inside it, no status element of the page takes a new
\* text, and no alert dialog is raised.
C2_StaleKeptNoError ==
  [][\A p \in {"load", "act"} :
       (LoadFails(p) /\ StaleRoots(p) # {})
         => /\ \A r \in StaleRoots(p) :
                  /\ view'[r] = view[r]
                  /\ \A e \in Inner(r) : status'[e] = status[e]
            /\ \A e \in StatusEls : status'[e] \in {status[e], ""}
            /\ alerted' = alerted]_vars

\* ------------------------------------------------------------------- C3
\* C3: in the step in which a view load handles its rejected fetch, every
\* view of the load whose cache read gave null shows an alert that carries
\* the message of the rejection (neither blank nor the placeholder).
C3_FailureAlert ==
  [][\A p \in {"load", "act"} :
       LoadFails(p)
         => \A r \in NullRoots(p) :
              /\ view'[r].k = "alert"
              /\ view'[r].m \in Failures(p)]_vars

\* a load with no cache entry failed and its view shows the alert
C3_Witness ==
  \E pg \in Pages \ {"admin"} :
    /\ page = pg /\ proc["load"].pc = "failed" /\ proc["load"].cached = NULL
    /\ \E r \in Roots : view[r].k = "alert" /\ view[r].m # ""

\* ------------------------------------------------------------------- C4
\* C4 (as stated): on the reports page, once the form's load of period P and
\* the load started before it have both completed and nothing is in flight,
\* the content shown is P's report.
C4_ShowsRequestedPeriod ==
  (/\ page = "reportes" /\ AllSettled
   /\ proc["act"].kind = "report" /\ proc["act"].pc = "done" /\ proc["load"].pc = "done")
    => /\ view["content"].k = "data"
       /\ view["content"].d[1].r = ReportUrl(proc["act"].per.year, proc["act"].per.month)

\* ------------------------------------------------------------------- C5
\* C5: in every process, each cache read and each stale render (or
\* placeholder) comes before every fetch of view data the process issues: no
\* fetch of view data precedes them.
C5_StaleBeforeFetch ==
  \A p \in Procs : \A i, j \in 1..Len(proc[p].ev) :
    (IsViewFetch(proc[p].ev[i]) /\ proc[p].ev[j][1] \in {"cacheGet", "stale", "placeholder"})
      => j < i

\* a load that drew a stale render and then issued its fetch
C5_Witness ==
  /\ HasKind(proc["load"].ev, "stale")
  /\ \E i \in 1..Len(proc["load"].ev) : IsViewFetch(proc["load"].ev[i])
  /\ proc["load"].ra.s = "sent"

\* ------------------------------------------------------------------- C6
\* C6: a step that writes a view's key puts the fetched payload under it
\* (when the store works); a step that does a fresh render comes after the
\* process's cacheSet of the view's key and leaves the view's roots showing
\* exactly the fetched payload.
C6_WriteThenFreshOnly ==
  [][\A p \in {"load", "act"} : \A i \in 1..Len(NewEvents(p)) :
       LET e == NewEvents(p)[i] IN
       /\ (IsLoad(p) /\ e[1] = "cacheSet" /\ Writable)
            => cache'[e[2]] = IF e[2] = "bootstrap" THEN SubSeq(proc'[p].fresh, 1, 1)
                                                    ELSE proc'[p].fresh
       /\ e[1] = "fresh"
            => /\ Has(proc[p].ev, <<"cacheSet", FreshKey(e[2])>>)
               /\ \A r \in FreshRoots(e[2]) : view'[r] = Data(proc[p].fresh)
               /\ \A n \in 1..Len(proc[p].fresh) : proc[p].fresh[n].v >= 1]_vars

\* a load replaced its stale render by the fresh payload
C6_Witness ==
  /\ proc["load"].pc = "done" /\ HasField(proc["load"].cached)
  /\ HasKind(proc["load"].ev, "fresh")
  /\ \E r \in Roots : view[r] = Data(proc["load"].fresh)

\* ------------------------------------------------------------------- C7
\* C7: on the dashboard, a process that has written 'bootstrap' or the
\* dashboard key, or has done a fresh render, holds a payload made of both
\* answers (bootstrap and monthly report); a process whose join failed has
\* written neither key and rendered nothing.
C7_JoinIsOneUnit ==
  page = "dashboard" =>
    \A p \in {"load", "act"} :
      /\ (\/ Has(proc[p].ev, <<"cacheSet", "bootstrap">>)
          \/ Has(proc[p].ev, <<"cacheSet", DashKey(Now.year, Now.month)>>)
          \/ Has(proc[p].ev, <<"fresh", "dashboard">>))
           => /\ Len(proc[p].fresh) = 2
              /\ proc[p].fresh[1].r = "/api/bootstrap" /\ proc[p].fresh[1].v >= 1
              /\ proc[p].fresh[2].r = ReportUrl(Now.year, Now.month) /\ proc[p].fresh[2].v >= 1
      /\ (proc[p].pc = "failed" /\ proc[p].rb.s # "none")
           => ~HasKind(proc[p].ev, "cacheSet") /\ ~HasKind(proc[p].ev, "fresh")

\* one fetch of the join succeeded, the other was rejected, and the load
\* ended without a write
C7_Witness ==
  /\ page = "dashboard" /\ proc["load"].pc = "failed"
  /\ proc["load"].ra.s = "ok" /\ proc["load"].rb.s = "fail"
  /\ ~HasKind(proc["load"].ev, "cacheSet")

C9_TwoConfirmations ==
  (page = "admin" /\ proc["act"].kind \in AdminKinds) =>
    LET ev == proc["act"].ev IN
    /\ Len(ev) >= 1 /\ ev[1][1] = "confirm"
    /\ ev[1] = <<"confirm", "no">> => Len(ev) = 1 /\ proc["act"].ra.s = "none"
    /\ (Len(ev) >= 2 /\ ev[2] = <<"confirm", "no">>) => Len(ev) = 2 /\ proc["act"].ra.s = "none"
    /\ \A i \in 1..Len(ev) :
         ev[i][1] = "fetch" => i >= 3 /\ ev[1] = <<"confirm", "yes">> /\ ev[2] = <<"confirm", "yes">>

\* an admin handler sent its POST after two accepted confirmations
C9_Witness ==
  /\ page = "admin" /\ proc["act"].kind \in AdminKinds /\ proc["act"].pc = "post"
  /\ proc["act"].ra.method = "POST"
  /\ proc["act"].ev[1] = <<"confirm", "yes">> /\ proc["act"].ev[2] = <<"confirm", "yes">>

\* ------------------------------------------------------------------ C10
\* C10 (as stated): roleLevel of the current user's role is one of the five
\* ordinals for the five roles, strictly increasing, and the number 0 for
\* every other or missing role; the gates follow the thresholds.
C10_UnknownRoleIsZero ==
  /\ roleLevel("ROLE_FREE").n < roleLevel("ROLE_PREMIUM").n
  /\ roleLevel("ROLE_PREMIUM").n < roleLevel("ROLE_ADMIN").n
  /\ roleLevel("ROLE_ADMIN").n < roleLevel("ROLE_SUPER_ADMIN").n
  /\ roleLevel("ROLE_SUPER_ADMIN").n < roleLevel("ROLE_OWNER").n
  /\ RoleOf(CURRENT_USER) \notin DOMAIN ROLE_LEVEL
       => roleLevel(RoleOf(CURRENT_USER)) = JsNumber(0)
  /\ ui.nav = "" => AtLeast(roleLevel(RoleOf(CURRENT_USER)), ROLE_LEVEL.ROLE_ADMIN)

\* ------------------------------------------------------------------ C11
\* C11 (as stated): when the store cannot be opened or a cache read or write
\* fails, no view load and no mutating handler is left waiting at a cache
\* call, and none reaches its failure handler unless a request of its own
\* was rejected.
C11_CacheFailureHarmless ==
  ~Writable =>
    \A p \in {"load", "act"} :
      /\ proc[p].pc # "suspended"
      /\ proc[p].pc = "failed" => Failures(p) # {}

\* ------------------------------------------------------------------ C12
\* C12: a cacheGet(key) call never rejects; it resolves to the data of the
\* last completed cacheSet on key (null when there was none) when the store
\* can be read, and to null when the store cannot be opened or the read fails.
C12_GetNeverRejects ==
  calc.f = "cacheGet"
    => /\ calc.out # Rejected
       /\ calc.out = IF calc.read THEN calc.last[calc.key] ELSE NULL

\* an entry exists and the read fails: the call resolved to null
C12_Witness ==
  /\ calc.f = "cacheGet" /\ ~calc.read
  /\ calc.last[calc.key] # NULL /\ calc.out = NULL

\* ------------------------------------------------------------------ C13
\* C13: a cacheSet(k, d) call on a working store leaves exactly d under k
\* and every other entry as it was; no other step changes an entry, so a
\* later cacheGet(k) on a working store returns the d of the last such call.
C13_LastWriteWins ==
  [][LET call == storeOk' = storeOk /\ txFate' = txFate
         write == call /\ calc'.f = "cacheSet" /\ Writable IN
     /\ write => /\ cache'[calc'.key] = calc'.data
                 /\ \A k \in Keys \ {calc'.key} : cache'[k] = cache[k]
     /\ ~write => cache' = cache
     /\ (call /\ calc'.f = "cacheGet" /\ Writable) => calc'.out = cache[calc'.key]]_vars

\* a second write replaced an entry and the read returned the second data
C13_Witness ==
  /\ calc.f = "cacheGet" /\ calc.read
  /\ calc.key = "expenses" /\ calc.out = Payload(UrlOf("expenses"), 2)
  /\ cache["debts"] # NULL

\* ------------------------------------------------------------------ C14
\* C14: the key sets of the init functions of different pages are pairwise
\* disjoint, and every cacheSet a page's init function (on the reports page
\* also its loadReport runs) has called named a key of its own page's set,
\* so the entries changed so far in this session are entries of that set.
C14_DisjointInitKeys ==
  /\ \A a \in Pages : \A b \in Pages \ {a} : PageKeys(a) \cap PageKeys(b) = {}
  /\ \A p \in {"load", "act"} :
       IsLoad(p) => \A i \in 1..Len(proc[p].ev) :
                      proc[p].ev[i][1] = "cacheSet" => proc[p].ev[i][2] \in PageKeys(page)
  /\ (proc["act"].kind = "" \/ page = "reportes")
       => \A k \in Keys \ PageKeys(page) : cache[k] = NULL

\* the dashboard's init function has written both of its keys
C14_Witness ==
  /\ page = "dashboard" /\ Writable /\ proc["load"].pc = "done"
  /\ cache["bootstrap"] # NULL /\ cache[DashKey(Now.year, Now.month)] # NULL
  /\ Has(proc["load"].ev, <<"cacheSet", "bootstrap">>)
  /\ Has(proc["load"].ev, <<"cacheSet", DashKey(Now.year, Now.month)>>)

\* ------------------------------------------------------------------ C15
\* C15: every fetchJson call settles; a call whose timer fired before any
\* response arrived ends rejected; and whenever a call has settled its
\* timer has been cleared.
C15_AlwaysSettles ==
  /\ (req.phase \in {"fetch", "json"}) ~> (req.phase \in {"resolved", "rejected"})
  /\ [](req.phase \in {"resolved", "rejected"}
          => /\ req.timer = "cleared"
             /\ (req.aborted /\ req.status = 0) => req.phase = "rejected")

\* the timer fired on a call that had no response, and the call was rejected
C15_Witness ==
  /\ req.phase = "rejected" /\ req.aborted /\ req.status = 0 /\ req.timer = "cleared"

\* ------------------------------------------------------------------ C16
\* C16: a settled fetchJson call that got a response is resolved exactly
\* when the status is a success and the payload does not carry ok:false;
\* otherwise it is rejected, with the payload's error text as the message
\* when the payload has a non-empty one, and with a generic message
\* (Error <status>, or Error) when it has none.
C16_ResolveOrReject ==
  (req.phase \in {"resolved", "rejected"} /\ req.status # 0)
    => LET good == ResOk(req.status) /\ ~(~req.json.null /\ req.json.ok = "false")
           hasError == ~req.json.null /\ req.json.error \notin {"absent", ""} IN
       /\ req.phase = "resolved" <=> good
       /\ req.phase = "resolved" => req.message = ""
       /\ (req.phase = "rejected" /\ hasError) => req.message = req.json.error
       /\ (req.phase = "rejected" /\ ~hasError)
            => req.message = IF ResOk(req.status) THEN "Error"
                             ELSE "Error " \o ToString(req.status)

\* a success status with ok:false and an error text was rejected with that
\* text
C16_Witness ==
  /\ req.phase = "rejected" /\ req.status = 200
  /\ ~req.json.null /\ req.json.ok = "false"
  /\ req.json.error = "No autorizado" /\ req.message = "No autorizado"

\* ------------------------------------------------------------------ C17
\* a decimal string: an optional minus and digits, with at most one
\* separator ('.' or ',') that has digits on both sides
Unsigned(s) == IF s # <<>> /\ s[1] = "-" THEN Tail(s) ELSE s
IsDecimalString(s) ==
  LET body == Unsigned(s) IN
  /\ body # <<>> /\ IsDigit(body[1]) /\ IsDigit(body[Len(body)])
  /\ \A i \in 1..Len(body) : IsDigit(body[i]) \/ body[i] \in {".", ","}
  /\ Cardinality({i \in 1..Len(body) : body[i] \in {".", ","}}) <= 1

\* its numeric value in cents, rounded to the nearest cent in exact
\* arithmetic; a value halfway between two cents goes to the larger, as
\* Math.round takes halves
NearestCent(s) ==
  LET body == Unsigned(s)
      seps == {i \in 1..Len(body) : body[i] \in {".", ","}}
      den == Pow10(IF seps = {} THEN 0 ELSE Len(body) - (CHOOSE i \in seps : TRUE))
      num == 100 * DecimalValue(SelectSeq(body, IsDigit)) IN
  IF s[1] = "-" THEN 0 - ((2 * num + den - 1) \div (2 * den))
  ELSE (2 * num + den) \div (2 * den)

\* the canonical form of an amount of cents: a minus when negative, the
\* units, a point, two digits
TwoDecimals(c) ==
  LET abs == IF c < 0 THEN 0 - c ELSE c IN
  (IF c < 0 THEN <<"-">> ELSE <<>>) \o Decimal(abs \div 100)
    \o <<".", DigitChars[((abs % 100) \div 10) + 1], DigitChars[(abs % 10) + 1]>>

\* C17: for a decimal string s with either separator, the string
\* centsToAmountStr(amountStrToCents(s)) is the two-decimal canonical form
\* of the value of s rounded to the nearest cent.
C17_RoundTrip ==
  (calc.f = "centsToAmountStr" /\ calc.in.amountStr.t = "string"
     /\ IsDecimalString(calc.in.amountStr.s))
    => calc.out = TwoDecimals(NearestCent(calc.in.amountStr.s))

\* ------------------------------------------------------------------ C18
\* a numeral: between optional white space, an optional sign and digits
\* with at most one separator ('.' or ',')
IsNumeral(s) ==
  LET t == Trim(s)
      body == IF t # <<>> /\ t[1] \in {"+", "-"} THEN Tail(t) ELSE t IN
  /\ \E i \in 1..Len(body) : IsDigit(body[i])
  /\ \A i \in 1..Len(body) : IsDigit(body[i]) \/ body[i] \in {".", ","}
  /\ Cardinality({i \in 1..Len(body) : body[i] \in {".", ","}}) <= 1
NonNumeric(v) == v.t # "string" \/ ~IsNumeral(v.s)

\* C18: amountStrToCents returns 0 for null, for undefined, for the empty
\* string and for every input that is not a numeral.
C18_NonNumericIsZero ==
  (calc.f = "amountStrToCents" /\ NonNumeric(calc.in.amountStr)) => calc.cents = 0

\* "1.5a" was converted, to 0
C18_Witness ==
  /\ calc.f = "amountStrToCents" /\ calc.cents = 0
  /\ calc.in.amountStr = JsString(<<"1", ".", "5", "a">>)

\* ------------------------------------------------------------------ C19
\* the maps among the values given, and whether one has the key
IsMap(m) == m.t = "object"
HasKey(m, k) == \E i \in 1..Len(m.keys) : m.keys[i] = k

\* C19: pickCurrency returns EUR when any of the maps has an EUR entry;
\* otherwise the first key, in key order, of the first map that has a
\* key; otherwise EUR.  (The result depends on the maps alone: it is the
\* value of an operator of them.)
C19_PickCurrency ==
  calc.f = "pickCurrency"
    => LET maps == calc.in.maps
           withEUR == {i \in 1..Len(maps) : IsMap(maps[i]) /\ HasKey(maps[i], "EUR")}
           nonEmpty == {i \in 1..Len(maps) : IsMap(maps[i]) /\ maps[i].keys # <<>>} IN
       /\ withEUR # {} => calc.out = "EUR"
       /\ (withEUR = {} /\ nonEmpty # {})
            => calc.out = maps[CHOOSE i \in nonEmpty : \A j \in nonEmpty : i <= j].keys[1]
       /\ nonEmpty = {} => calc.out = "EUR"

\* an empty map, then a map with USD first, then a map with EUR: EUR
C19_Witness ==
  /\ calc.f = "pickCurrency" /\ calc.out = "EUR"
  /\ calc.in.maps = <<JsObject(<<>>), JsObject(<<"USD", "XAF">>), JsObject(<<"XAF", "EUR">>)>>

\* ------------------------------------------------------------------ C20
\* round(n / d) in exact arithmetic for d > 0, halves toward +Infinity as
\* Math.round takes them, and the clamp to [0, 100]
RoundedRatio(n, d) == (2 * n + d) \div (2 * d)
Clamp(v) == IF v < 0 THEN 0 ELSE IF v > 100 THEN 100 ELSE v

\* C20: the progress percentage is an integer in [0, 100]; for
\* incomeCents > 0 it is round(expensesCents * 100 / incomeCents) clamped
\* to that range, so 0 when expensesCents is 0; and it is 0 when
\* incomeCents <= 0.
C20_ProgressPct ==
  calc.f = "progressPct"
    => /\ calc.out \in 0..100
       /\ calc.in.incomeCents > 0
            => calc.out = Clamp(RoundedRatio(calc.in.expensesCents * 100, calc.in.incomeCents))
       /\ (calc.in.incomeCents > 0 /\ calc.in.expensesCents = 0) => calc.out = 0
       /\ calc.in.incomeCents <= 0 => calc.out = 0

\* ------------------------------------------------------------------ C21
\* the cents the income and expenses maps drawn hold for a code
IncomeCents(code) == IF code = "EUR" THEN 150000 ELSE 400
ExpensesCents(code) == IF code = "EUR" THEN 40000 ELSE 950

\* C21: in a render of the dashboard the bank, income and expenses figures
\* are the amounts their maps hold for the one code pickCurrency returned
\* for the three maps, and 0 for a map that lacks the code; the three
\* texts carry that code.
C21_OneCurrency ==
  calc.f = "renderDashboard"
    => LET o == calc.out IN
       /\ o.currency = pickCurrency(<<o.bankMap, o.incomeMap, o.expensesMap>>)
       /\ o.bankCents = IF HasKey(o.bankMap, o.currency) THEN BankCents(o.currency) ELSE 0
       /\ o.incomeCents = IF HasKey(o.incomeMap, o.currency) THEN IncomeCents(o.currency) ELSE 0
       /\ o.expensesCents = IF HasKey(o.expensesMap, o.currency) THEN ExpensesCents(o.currency) ELSE 0
       /\ o.banco.currency = o.currency /\ o.beneficio.currency = o.currency
       /\ o.gastos.currency = o.currency

\* EUR was picked for the income's sake; the bank map holds dollars only
\* and shows 0, the expenses are read at EUR
C21_Witness ==
  /\ calc.f = "renderDashboard" /\ calc.out.currency = "EUR"
  /\ calc.out.bankMap.keys = <<"USD">> /\ calc.out.bankCents = 0
  /\ calc.out.incomeMap.keys = <<"USD", "EUR">> /\ calc.out.incomeCents = 150000
  /\ calc.out.expensesMap.keys = <<"EUR">> /\ calc.out.expensesCents = 40000

\* ------------------------------------------------------------------ C22
\* C22: the profit is the income's cents minus the expenses' cents, an
\* integer (150000 and 40000 give 110000); the profit card shows the
\* two-decimal form of that integer; the chip is the positive one, with a
\* "+" before the amount, exactly when the profit is >= 0.
C22_ProfitInCents ==
  calc.f = "renderDashboard"
    => LET o == calc.out
           income == IF HasKey(o.incomeMap, o.currency) THEN IncomeCents(o.currency) ELSE 0
           expenses == IF HasKey(o.expensesMap, o.currency) THEN ExpensesCents(o.currency) ELSE 0 IN
       /\ o.beneficioCents \in Int
       /\ o.beneficioCents = income - expenses
       /\ (income = 150000 /\ expenses = 40000) => o.beneficioCents = 110000
       /\ o.beneficio.amount = TwoDecimals(income - expenses)
       /\ o.chip.sign = "+" <=> income - expenses >= 0
       /\ o.chip.class = "chip chip-pos" <=> income - expenses >= 0
       /\ o.chip.class \in {"chip chip-pos", "chip chip-neg"} /\ o.chip.sign \in {"+", ""}

\* income 1500.00 and expenses 400.00 in EUR: 110000 cents, shown as
\* +1100.00
C22_Witness ==
  /\ calc.f = "renderDashboard" /\ calc.out.currency = "EUR"
  /\ calc.out.incomeCents = 150000 /\ calc.out.expensesCents = 40000
  /\ calc.out.beneficioCents = 110000 /\ calc.out.chip.sign = "+"
  /\ calc.out.beneficio.amount = <<"1", "1", "0", "0", ".", "0", "0">>

\* ------------------------------------------------------------------ C23
\* the payloads a process holds that a cacheSet of its step may store
Held(p) == {proc[p].ra.d, proc[p].fresh, proc'[p].fresh}

\* C23: a step never removes an entry of the cache store; an entry that
\* changes was written by a cacheSet to that very key in that step, and is
\* then the whole payload of that write.
C23_KeysNeverShrink ==
  [][\A k \in Keys :
       /\ cache[k] # NULL => cache'[k] # NULL
       /\ cache'[k] # cache[k]
            => \E p \in Procs : /\ Has(NewEvents(p), <<"cacheSet", k>>)
                                /\ cache'[k] \in Held(p)]_vars

\* the companies entry of an earlier session was replaced by the fresh list
\* while the work entries of that session are still there
C23_Witness ==
  /\ page = "ingresos" /\ proc["load"].cached = Earlier("companies")
  /\ cache["companies"] # Earlier("companies") /\ cache["companies"] # NULL
  /\ cache["workEntries"] = Earlier("workEntries")

\* ------------------------------------------------------------------ C30
\* C30: in every process, a POST to /api/months/close comes directly after
\* two confirm() dialogs that were both answered yes.
C30_CloseIsConfirmed ==
  \A p \in Procs : \A i \in 1..Len(proc[p].ev) :
    proc[p].ev[i] = Fetch("POST", "/api/months/close")
      => /\ i > 2
         /\ proc[p].ev[i - 2] = <<"confirm", "yes">>
         /\ proc[p].ev[i - 1] = <<"confirm", "yes">>

\* ------------------------------------------------------------------ C29
\* C29: when CURRENT_USER holds a user, the step in which a startup task
\* (initMe, initReports, initAdmin) learns that its own /api/me request
\* failed leaves CURRENT_USER and the admin links as they are.
C29_UserSurvivesFailure ==
  [][\A p \in {"me", "load"} :
       (/\ CURRENT_USER # NoUser
        /\ proc[p].pc = "me" /\ proc[p].ra.s = "fail" /\ proc'[p].pc # "me")
         => CURRENT_USER' = CURRENT_USER /\ ui'.nav = ui.nav]_vars

\* ------------------------------------------------------------------ C26
\* C26: on the companies / work-entries page, the step in which the load
\* gives up on a failed fetch puts an alert only in a list that shows no
\* rendered data; in particular the companies that this load fetched and
\* rendered stay when its work-entries fetch fails.
C26_FreshListSurvives ==
  [][(/\ page = "ingresos"
      /\ proc["load"].pc \in {"fetch", "fetch2"} /\ proc'["load"].pc = "failed")
       => /\ \A r \in {"companies", "entries"} :
               (view'[r].k = "alert" /\ view'[r] # view[r]) => view[r].k # "data"
          /\ (proc["load"].pc = "fetch2" /\ Has(proc["load"].ev, <<"fresh", "/api/companies">>))
               => view'["companies"] = view["companies"]]_vars

\* ------------------------------------------------------------------ C27
\* C27: when no operation of the dashboard is running and the store works,
\* an entry under the dashboard key is the payload the dashboard shows, so
\* the month is rendered closed exactly when the cached report says so.
C27_ShownIsCached ==
  (/\ page = "dashboard" /\ AllSettled /\ Writable
   /\ cache[DashKey(Now.year, Now.month)] # NULL)
    => /\ view["dashboard"] = Data(cache[DashKey(Now.year, Now.month)])
       /\ IsClosed(view["dashboard"].d) <=> IsClosed(cache[DashKey(Now.year, Now.month)])

\* ------------------------------------------------------------------ C28
\* a month close started by the close button is under way
ClosePending ==
  /\ proc["act"].kind = "close"
  /\ proc["act"].pc \in {"post", "join", "set1", "set2", "bank", "set3"}

\* C28: on the dashboard, while a month close started by the close button
\* is under way the page has no enabled close button.
C28_OneCloseAtATime ==
  (page = "dashboard" /\ ClosePending) => closeBtn # "enabled"

\* ------------------------------------------------------------------ C24
\* the list areas of a page
ListAreas(pg) ==
  CASE pg = "dashboard" -> {"dashboard"}
    [] pg = "ingresos" -> {"companies", "entries"}
    [] pg = "gastos" -> {"expenses"}
    [] pg = "banco" -> {"balance", "movements"}
    [] pg = "deudas" -> {"debts"}
    [] pg = "reportes" -> {"content"}
    [] OTHER -> {"admin"}

\* C24: once the initial load of a page has settled (finished or given
\* up), each of its list areas shows rendered data or a failure alert,
\* whatever the cache held and however the fetch ended: none is blank or
\* shows "Cargando...".
C24_NeverLeftEmpty ==
  proc["load"].pc \in {"done", "failed"}
    => \A r \in ListAreas(page) : view[r].k \in {"data", "alert"}

\* ------------------------------------------------------------------ C25
\* C25: a step that writes a key on a working store leaves under it a
\* payload that has the field the view's stale render reads; an entry that
\* had the field still has it after any step.
C25_StoredIsRenderable ==
  [][\A k \in Keys :
       /\ (Writable /\ \E p \in Procs : Has(NewEvents(p), <<"cacheSet", k>>))
            => HasField(cache'[k])
       /\ HasField(cache[k]) => HasField(cache'[k])]_vars

\* ------------------------------------------------------------------ C31
\* the tag the bank view shows for a code
TagOf(out, code) == out.tags[CHOOSE i \in 1..Len(out.tags) : out.tags[i].currency = code]

\* C31: for the balances of one payload, the bank view's tag of the
\* currency the dashboard shows carries the amount of the dashboard's
\* "En Banco" figure, whether the balance is an integer or a decimal
\* string.
C31_SameBankAmount ==
  calc.f = "renderBankBalance"
    => LET d == dashboardCards(calc.in) IN
       HasKey(d.bankMap, d.currency)
         => TagOf(calc.out, d.currency).amount = d.banco.amount
====
